---- MODULE Spec2Model ----
(***************************************************************************)
(* A model of vizier's graph construction core: the single-log (Claude)    *)
(* normalizer, tool-call merger, lane packer and graph assembler, the      *)
(* shared stats aggregator, and the part-store (OpenCode) graph builder.   *)
(*                                                                         *)
(* Conventions                                                             *)
(*   - an optional string field (uuid?, agentId?, parentId?, ...) that is  *)
(*     undefined is the empty string NoStr: the code tests these fields by *)
(*     truthiness only (event.uuid || ..., !aid, n.parentId), which treats *)
(*     undefined and "" alike;                                             *)
(*   - an optional number, and a string | null, is a sequence of length    *)
(*     0 (undefined / null) or 1 (the value);                              *)
(*   - event.timestamp is kept as the epoch-millisecond value that         *)
(*     new Date(event.timestamp).getTime() yields for it.                  *)
(***************************************************************************)
EXTENDS Integers, Sequences, FiniteSets, TLC

VARIABLES
    events,     \* the SessionEvent[] handed to buildGraph (file order)
    counter,    \* parser module state: `let counter = 0` of generateId
    graph,      \* the Graph of the latest buildGraph(events)
    prevGraph,  \* the Graph of the build before it, when that build read
                \* the same events; NoGraph otherwise
    items,      \* the TokenInput[] handed to computeStats
    stats,      \* the SessionStats computeStats(items) returned
    messages,   \* part store: the message records, in discovery order
    parts,      \* part store: the part records, in discovery order
    ocGraph,    \* the Graph of the latest buildOpenCodeGraph
    zoom,       \* viewer: the ZoomLevel
    viewNodes,  \* viewer: the nodes of the Graph on display
    visible,    \* viewer: filterByZoom(viewNodes, zoom), 0-based indices
    sticky,     \* viewer: the last findStickyNode call and what it returned
    entries,    \* multi-source: the SourceEntry[] it was created over
    sessionList,\* multi-source: what its listSessions returned last
    routed,     \* multi-source: the last call made on it and the adapter
                \* call that came of it
    clock,      \* milliseconds since the viewer was mounted
    timers,     \* the runtime's pending setTimeout timers of watch callbacks
    subs,       \* the subscriptions source.watch has made, in order
    stores,     \* per session, the changes written to its part store so far
    watchLog,   \* the change notifications and rebuilds so far, in order
    shown,      \* viewer: sessionId, the graph on display and the state of
                \* the watch effect
    mounted,    \* viewer: whether App has been rendered with an initial graph
    currentLevel,   \* viewer: the cursor's visual row
    cursorInLevel,  \* viewer: the cursor's position within that row
    follow,     \* viewer: followRef.current
    closure,    \* viewer: currentLevel and cursorInLevel as the watch
                \* callback captured them
    lastKey,    \* viewer: the last key useInput handled, and what it called
    userRules,  \* tool icons: the rules of the user's tool-icons.json
    cachedRules,\* tool icons: `let cachedRules`, None while null
    lookup      \* tool icons: the last getToolUi call and what it returned

logVars == <<events, counter, graph, prevGraph>>
statsVars == <<items, stats>>
ocVars == <<messages, parts, ocGraph>>
viewVars == <<zoom, viewNodes, visible, sticky>>
multiVars == <<entries, sessionList, routed>>
watchVars == <<clock, timers, subs, stores, watchLog, shown>>
cursorVars == <<mounted, currentLevel, cursorInLevel, follow, closure, lastKey>>
ruleVars == <<userRules, cachedRules, lookup>>
coreVars == <<logVars, statsVars, ocVars, viewVars>>
appVars == <<multiVars, watchVars, cursorVars, ruleVars>>

vars == <<events, counter, graph, prevGraph, items, stats, messages, parts, ocGraph,
          zoom, viewNodes, visible, sticky, entries, sessionList, routed,
          clock, timers, subs, stores, watchLog, shown,
          mounted, currentLevel, cursorInLevel, follow, closure, lastKey,
          userRules, cachedRules, lookup>>

-----------------------------------------------------------------------------
(* Bounds of the model                                                     *)

MaxEvents == 3      \* events appended to a log
MaxTs == 2          \* timestamps of log events are 1..MaxTs
MaxCounter == 3     \* generateId calls modelled before the process stops building
MaxAgents == 3      \* sub-agent files discovered for a session
MaxSpanTs == 3      \* timestamps of sub-agent events are 1..MaxSpanTs
MaxItems == 3       \* items handed to computeStats
MaxMsgs == 3        \* message records discovered in the part store
MaxParts == 3       \* part records discovered in the part store
MaxViewNodes == 3   \* nodes of the graph on display
MaxLanes == 3       \* lanes (branchLevels) the row formula is evaluated for
MaxSessions == 2    \* sessions the adapters of a multi-source hold in all
MaxClock == 400     \* the clock stops at this many milliseconds
MaxNotifs == 3      \* change notifications the watchers deliver in all
MaxSwitches == 2    \* session switches of the viewer
MaxUserRules == 2   \* rules in the user's tool-icons.json

-----------------------------------------------------------------------------
(* Values                                                                  *)

NoStr == ""
None == <<>>
Some(v) == <<v>>

NoGraph == [nodes |-> <<>>, edges |-> <<>>, stats |-> <<>>, built |-> FALSE]

\* Array.prototype.flatMap / filter over sequences
RECURSIVE Flatten(_)
Flatten(ss) == IF ss = <<>> THEN <<>> ELSE Head(ss) \o Flatten(Tail(ss))

-----------------------------------------------------------------------------
(* Event Normalizer: parseEventToNodes                                     *)

\* `generated-${counter++}`
generateId(c) == "generated-" \o ToString(c)

\* a Node; every kind carries every field, the unused ones blank
MkNode(id, parentId, kind, ts, agentId) ==
    [id |-> id, parentId |-> parentId, kind |-> kind,
     text |-> <<>>, name |-> NoStr, input |-> NoStr,
     output |-> None, isError |-> FALSE,
     timestamp |-> ts, branchLevel |-> 0, agentId |-> agentId,
     model |-> NoStr, usage |-> None]

\* content: [isString, str, blocks]; str and a text block's text are
\* sequences of words, join(" ") is their concatenation
extractTextContent(content) ==
    IF content.isString THEN content.str
    ELSE Flatten([i \in 1..Len(content.blocks) |->
                    IF content.blocks[i].type = "text"
                    THEN content.blocks[i].text ELSE <<>>])

\* the tool_use blocks, in order; null (here <<>>) when there is none
extractToolUses(content) ==
    IF content.isString THEN <<>>
    ELSE SelectSeq(content.blocks, LAMBDA b : b.type = "tool_use")

\* [toolUseId, output, isError] of the tool_result blocks, in order
extractToolResults(content) ==
    IF content.isString THEN <<>>
    ELSE LET rs == SelectSeq(content.blocks, LAMBDA b : b.type = "tool_result")
         IN  [i \in 1..Len(rs) |->
                [toolUseId |-> rs[i].tool_use_id,
                 output |-> IF rs[i].contentIsString THEN rs[i].content ELSE "",
                 isError |-> rs[i].is_error]]

\* parseEventToNodes(event), with gen the id generateId() returns for it
parseEventToNodes(event, gen) ==
    LET ts == event.timestamp
        uuid == IF event.uuid # NoStr THEN event.uuid ELSE gen
    IN
    IF event.message = None THEN <<>>
    ELSE
    LET msg == event.message[1]
        content == msg.content
        toolResults == extractToolResults(content)
        text == extractTextContent(content)
        toolUses == extractToolUses(content)
        hasTextNode == Len(text) > 0
        toolParent == IF hasTextNode THEN uuid ELSE event.parentUuid
        userNodes ==
            IF toolResults # <<>>
            THEN [i \in 1..Len(toolResults) |->
                    [MkNode(uuid \o ":" \o ToString(i - 1), toolResults[i].toolUseId,
                            "tool_result", ts, event.agentId)
                       EXCEPT !.output = Some(toolResults[i].output),
                              !.isError = toolResults[i].isError]]
            ELSE IF Len(text) > 0
                 THEN << [MkNode(uuid, event.parentUuid, "user", ts, event.agentId)
                            EXCEPT !.text = text] >>
                 ELSE <<>>
        asstText ==
            IF hasTextNode
            THEN << [MkNode(uuid, event.parentUuid, "assistant", ts, event.agentId)
                       EXCEPT !.text = text, !.model = msg.model, !.usage = msg.usage] >>
            ELSE <<>>
        asstTools ==
            [i \in 1..Len(toolUses) |->
                [MkNode(toolUses[i].id, toolParent, "tool_use", ts, event.agentId)
                   EXCEPT !.name = toolUses[i].name, !.input = toolUses[i].input,
                          !.model = msg.model, !.usage = msg.usage]]
    IN  (IF msg.role = "user" THEN userNodes ELSE <<>>)
        \o (IF msg.role = "assistant" THEN asstText \o asstTools ELSE <<>>)

\* the number of generateId() calls made for events[1..k]
RECURSIVE GeneratedBefore(_, _)
GeneratedBefore(evs, k) ==
    IF k = 0 THEN 0
    ELSE GeneratedBefore(evs, k - 1) + (IF evs[k].uuid = NoStr THEN 1 ELSE 0)

\* events.flatMap(parseEventToNodes), the module counter being c at the call
rawNodesOf(evs, c) ==
    Flatten([k \in 1..Len(evs) |->
               parseEventToNodes(evs[k], generateId(c + GeneratedBefore(evs, k - 1)))])

-----------------------------------------------------------------------------
(* Tool-Call Merger: mergeToolCalls                                        *)

\* the positions of the tool_result nodes indexed under tool id `id`
ResultPositions(nodes, id) ==
    {i \in 1..Len(nodes) : /\ nodes[i].kind = "tool_result"
                           /\ nodes[i].parentId # NoStr
                           /\ nodes[i].parentId = id}

MaxOf(S) == CHOOSE i \in S : \A j \in S : j <= i
MinOf(S) == CHOOSE i \in S : \A j \in S : i <= j

\* resultByToolId.get(id): Map.set overwrites, so the last result indexed wins
resultByToolId(nodes, id) == nodes[MaxOf(ResultPositions(nodes, id))]

\* variant: every indexed result counts as consumed from the start
consumedResults_AllIndexed(nodes, i) ==
    {nodes[k].id : k \in {j \in 1..Len(nodes) : /\ nodes[j].kind = "tool_result"
                                                /\ nodes[j].parentId # NoStr}}

\* consumedResults when the second loop reaches position i
consumedResults(nodes, i) ==
    {resultByToolId(nodes, nodes[j].id).id :
        j \in {k \in 1..(i - 1) : /\ nodes[k].kind = "tool_use"
                                  /\ ResultPositions(nodes, nodes[k].id) # {}}}

\* variant: the merged tool_call never carries the result's error flag
mergedAt_NoErrorFlag(nodes, i) ==
    LET n == nodes[i] IN
    IF n.kind = "tool_use"
    THEN LET has == ResultPositions(nodes, n.id) # {}
         IN  << [n EXCEPT !.kind = "tool_call",
                          !.output = IF has THEN resultByToolId(nodes, n.id).output ELSE None,
                          !.isError = FALSE] >>
    ELSE IF n.kind = "tool_result"
         THEN IF n.id \in consumedResults(nodes, i) THEN <<>> ELSE << n >>
         ELSE << n >>

\* what the second loop pushes for nodes[i]
mergedAt(nodes, i) ==
    LET n == nodes[i] IN
    IF n.kind = "tool_use"
    THEN LET has == ResultPositions(nodes, n.id) # {}
         IN  << [n EXCEPT !.kind = "tool_call",
                          !.output = IF has THEN resultByToolId(nodes, n.id).output ELSE None,
                          !.isError = IF has THEN resultByToolId(nodes, n.id).isError ELSE FALSE] >>
    ELSE IF n.kind = "tool_result"
         THEN IF n.id \in consumedResults(nodes, i) THEN <<>> ELSE << n >>
         ELSE << n >>

mergeToolCalls(nodes) == Flatten([i \in 1..Len(nodes) |-> mergedAt(nodes, i)])

-----------------------------------------------------------------------------
(* Stable sorts: Array.prototype.sort with a numeric comparator            *)

\* insert p after every element whose key is <= p's
RECURSIVE InsertStable(_, _)
InsertStable(sorted, p) ==
    IF sorted = <<>> THEN << p >>
    ELSE IF Head(sorted).key <= p.key
         THEN << Head(sorted) >> \o InsertStable(Tail(sorted), p)
         ELSE << p >> \o sorted

RECURSIVE StableSort(_)
StableSort(ps) ==
    IF ps = <<>> THEN <<>>
    ELSE InsertStable(StableSort(SubSeq(ps, 1, Len(ps) - 1)), ps[Len(ps)])

\* variant: the nodes stay in event order
sortByTimestamp_None(nodes) == nodes

\* rawNodes.sort((a, b) => a.timestamp - b.timestamp)
sortByTimestamp(nodes) ==
    LET keyed == StableSort([i \in 1..Len(nodes) |-> [key |-> nodes[i].timestamp, val |-> nodes[i]]])
    IN  [i \in 1..Len(keyed) |-> keyed[i].val]

-----------------------------------------------------------------------------
(* Concurrency Lane Packer                                                 *)

\* agentId -> parentToolUseID of the agent_progress events; a later event overwrites
agentToParentToolUse(evs, aid) ==
    LET I == {i \in 1..Len(evs) : /\ evs[i].type = "progress"
                                  /\ evs[i].dataType = "agent_progress"
                                  /\ evs[i].dataAgentId # NoStr
                                  /\ evs[i].parentToolUseID # NoStr
                                  /\ evs[i].dataAgentId = aid}
    IN  IF I = {} THEN NoStr ELSE evs[MaxOf(I)].parentToolUseID

\* the keys of agentSpans in Map insertion order: first occurrence in evs
RECURSIVE agentOrder(_)
agentOrder(evs) ==
    IF evs = <<>> THEN <<>>
    ELSE LET front == agentOrder(SubSeq(evs, 1, Len(evs) - 1))
             aid == evs[Len(evs)].agentId
         IN  IF aid = NoStr \/ \E k \in 1..Len(front) : front[k] = aid
             THEN front ELSE Append(front, aid)

\* agentSpans.entries(): [aid, start, end], start / end the least / greatest timestamp
agentSpans(evs) ==
    LET order == agentOrder(evs)
        tsOf(aid) == {evs[i].timestamp : i \in {j \in 1..Len(evs) : evs[j].agentId = aid}}
    IN  [k \in 1..Len(order) |->
            [aid |-> order[k], start |-> MinOf(tsOf(order[k])), end |-> MaxOf(tsOf(order[k]))]]

\* variant: the spans stay in discovery order
sortSpans_Unsorted(spans) == spans

\* [...agentSpans.entries()].sort((a, b) => a[1].start - b[1].start)
sortSpans(spans) ==
    LET keyed == StableSort([i \in 1..Len(spans) |-> [key |-> spans[i].start, val |-> spans[i]]])
    IN  [i \in 1..Len(keyed) |-> keyed[i].val]

\* variant: a lane counts as free until the new span has ended
laneFree_ByEnd(laneEnd, span) == laneEnd <= span.end

\* the lane test of the packer: lanes[i].end <= span.start
laneFree(laneEnd, span) == laneEnd <= span.start

\* the greedy loop: lanes is the sequence of lanes[i].end, acc the entries of
\* agentToBranch set so far
RECURSIVE packLanes(_, _, _)
packLanes(sorted, lanes, acc) ==
    IF sorted = <<>> THEN acc
    ELSE LET span == Head(sorted)
             free == {i \in 1..Len(lanes) : laneFree(lanes[i], span)}
             assigned == IF free = {} THEN Len(lanes) + 1 ELSE MinOf(free)
             lanes2 == IF free = {} THEN Append(lanes, span.end)
                       ELSE [lanes EXCEPT ![assigned] = span.end]
         IN  packLanes(Tail(sorted), lanes2,
                       Append(acc, [aid |-> span.aid, branch |-> assigned,
                                    start |-> span.start, end |-> span.end]))

\* the entries of agentToBranch (branchLevel 1-based), with each agent's span
agentToBranch(evs) == packLanes(sortSpans(agentSpans(evs)), <<>>, <<>>)

\* agentToBranch.get(aid) ?? 0
branchOf(evs, aid) ==
    LET a2b == agentToBranch(evs)
        I == {k \in 1..Len(a2b) : a2b[k].aid = aid}
    IN  IF I = {} THEN 0 ELSE a2b[MaxOf(I)].branch

-----------------------------------------------------------------------------
(* Graph Assembler: buildGraph                                             *)

\* x ?? 0
orZero(opt) == IF opt = None THEN 0 ELSE opt[1]

\* one iteration of the loop of the single-log builder's computeStats
logStatsStep(acc, event) ==
    IF event.message = None \/ event.message[1].usage = None THEN acc
    ELSE LET u == event.message[1].usage[1]
             m == event.message[1].model
         IN  [totalInputTokens |-> acc.totalInputTokens + orZero(u.input_tokens),
              totalOutputTokens |-> acc.totalOutputTokens + orZero(u.output_tokens),
              totalCacheRead |-> acc.totalCacheRead + orZero(u.cache_read_input_tokens),
              totalCacheCreation |-> acc.totalCacheCreation + orZero(u.cache_creation_input_tokens),
              model |-> IF m # NoStr THEN m ELSE acc.model]

RECURSIVE logStatsLoop(_, _)
logStatsLoop(evs, acc) ==
    IF evs = <<>> THEN acc ELSE logStatsLoop(Tail(evs), logStatsStep(acc, Head(evs)))

\* computeStats of the single-log builder; model null is NoStr
logComputeStats(evs) ==
    logStatsLoop(evs, [totalInputTokens |-> 0, totalOutputTokens |-> 0,
                       totalCacheRead |-> 0, totalCacheCreation |-> 0, model |-> NoStr])

\* rawNodes after the sort
sortedRawNodes(evs, c) == sortByTimestamp(rawNodesOf(evs, c))

\* variant: every node of a spawned agent is linked to the spawning tool call
assembledAt_LinkAll(evs, merged, i) ==
    LET node == merged[i] IN
    IF node.agentId = NoStr THEN << node >>
    ELSE IF node.kind = "user" THEN <<>>
    ELSE LET updated == [node EXCEPT !.branchLevel = branchOf(evs, node.agentId)]
             parentToolId == agentToParentToolUse(evs, node.agentId)
         IN  IF parentToolId # NoStr
             THEN << [updated EXCEPT !.parentId = parentToolId] >>
             ELSE << updated >>

\* variant: the user nodes of agents are kept like any other agent node
assembledAt_KeepUsers(evs, merged, i) ==
    LET node == merged[i] IN
    IF node.agentId = NoStr THEN << node >>
    ELSE LET updated == [node EXCEPT !.branchLevel = branchOf(evs, node.agentId)]
             first == ~ \E j \in 1..(i - 1) : merged[j].agentId = node.agentId
             parentToolId == agentToParentToolUse(evs, node.agentId)
         IN  IF first /\ parentToolId # NoStr
             THEN << [updated EXCEPT !.parentId = parentToolId] >>
             ELSE << updated >>

\* step 3 for merged[i]: branchLevel, agent user nodes dropped, first agent node linked
assembledAt(evs, merged, i) ==
    LET node == merged[i] IN
    IF node.agentId = NoStr THEN << node >>
    ELSE IF node.kind = "user" THEN <<>>
    ELSE LET updated == [node EXCEPT !.branchLevel = branchOf(evs, node.agentId)]
             first == ~ \E j \in 1..(i - 1) : /\ merged[j].agentId = node.agentId
                                              /\ merged[j].kind # "user"
             parentToolId == agentToParentToolUse(evs, node.agentId)
         IN  IF first /\ parentToolId # NoStr
             THEN << [updated EXCEPT !.parentId = parentToolId] >>
             ELSE << updated >>

\* variant: no edge is marked as a branch
edgesOf_NoBranch(nodes) ==
    LET withParent == SelectSeq(nodes, LAMBDA n : n.parentId # NoStr)
    IN  [i \in 1..Len(withParent) |->
            [from |-> withParent[i].parentId, to |-> withParent[i].id, isBranch |-> FALSE]]

\* nodes.filter(n => n.parentId).map(...)
edgesOf(nodes) ==
    LET withParent == SelectSeq(nodes, LAMBDA n : n.parentId # NoStr)
    IN  [i \in 1..Len(withParent) |->
            [from |-> withParent[i].parentId, to |-> withParent[i].id,
             isBranch |-> withParent[i].branchLevel > 0]]

\* buildGraph(events), the module counter being c at the call
buildGraph(evs, c) ==
    LET merged == mergeToolCalls(sortedRawNodes(evs, c))
        nodes == Flatten([i \in 1..Len(merged) |-> assembledAt(evs, merged, i)])
    IN  [nodes |-> nodes, edges |-> edgesOf(nodes), stats |-> logComputeStats(evs),
         built |-> TRUE]

\* the module counter after buildGraph(evs)
counterAfter(evs, c) == c + GeneratedBefore(evs, Len(evs))

-----------------------------------------------------------------------------
(* Stats Aggregator: computeStats of core/stats                            *)

\* a Usage; each field is optional
Usage(i, o, cr, cc, r) ==
    [input_tokens |-> i, output_tokens |-> o, cache_read_input_tokens |-> cr,
     cache_creation_input_tokens |-> cc, reasoning_tokens |-> r]

\* a TokenInput: usage?, model? (NoStr when absent), cost?
TokenInput(usage, model, cost) == [usage |-> usage, model |-> model, cost |-> cost]

ZeroTotals ==
    [totalInputTokens |-> 0, totalOutputTokens |-> 0, totalCacheRead |-> 0,
     totalCacheCreation |-> 0, totalReasoningTokens |-> 0, totalCost |-> 0, model |-> NoStr]

\* a loop body that assigns the input tokens where the code accumulates them
statsStep_Overwrite(acc, item) ==
    IF item.usage = None THEN acc
    ELSE [acc EXCEPT !.totalInputTokens = orZero(item.usage[1].input_tokens)]

\* the body of `for (const item of items)`
statsStep(acc, item) ==
    LET a1 == IF item.usage = None THEN acc
              ELSE LET u == item.usage[1]
                   IN  [acc EXCEPT
                          !.totalInputTokens = @ + orZero(u.input_tokens),
                          !.totalOutputTokens = @ + orZero(u.output_tokens),
                          !.totalCacheRead = @ + orZero(u.cache_read_input_tokens),
                          !.totalCacheCreation = @ + orZero(u.cache_creation_input_tokens),
                          !.totalReasoningTokens = @ + orZero(u.reasoning_tokens)]
        a2 == IF item.cost # None /\ item.cost[1] # 0
              THEN [a1 EXCEPT !.totalCost = @ + item.cost[1]] ELSE a1
    IN  IF item.model # NoStr THEN [a2 EXCEPT !.model = item.model] ELSE a2

RECURSIVE statsLoop(_, _)
statsLoop(its, acc) ==
    IF its = <<>> THEN acc ELSE statsLoop(Tail(its), statsStep(acc, Head(its)))

\* a report that keeps a zero total
orUndefined_Keep(x) == Some(x)

\* x || undefined
orUndefined(x) == IF x = 0 THEN None ELSE Some(x)

computeStats(its) ==
    LET t == statsLoop(its, ZeroTotals)
    IN  [totalInputTokens |-> t.totalInputTokens,
         totalOutputTokens |-> t.totalOutputTokens,
         totalCacheRead |-> t.totalCacheRead,
         totalCacheCreation |-> t.totalCacheCreation,
         model |-> t.model,
         totalCost |-> orUndefined(t.totalCost),
         totalReasoningTokens |-> orUndefined(t.totalReasoningTokens)]

emptyStats ==
    [totalInputTokens |-> 0, totalOutputTokens |-> 0, totalCacheRead |-> 0,
     totalCacheCreation |-> 0, model |-> NoStr,
     totalCost |-> None, totalReasoningTokens |-> None]

-----------------------------------------------------------------------------
(* Zoom Projector: core/zoom                                               *)

\* ZoomLevel, from the widest to the closest
ZoomLevels == << "sessions", "conversations", "details", "focus" >>

\* variant: zooming in from focus wraps around to sessions
zoomIn_Wrap(level) ==
    CASE level = "sessions" -> "conversations"
      [] level = "conversations" -> "details"
      [] level = "details" -> "focus"
      [] level = "focus" -> "sessions"

zoomIn(level) ==
    CASE level = "sessions" -> "conversations"
      [] level = "conversations" -> "details"
      [] level = "details" -> "focus"
      [] level = "focus" -> "focus"

zoomOut(level) ==
    CASE level = "sessions" -> "sessions"
      [] level = "conversations" -> "sessions"
      [] level = "details" -> "conversations"
      [] level = "focus" -> "details"

\* variant: conversations collapses the main line into row 0 as sessions does
getVisualBranch_FlatConversations(node, level) ==
    LET mainRow == CASE node.kind = "user" -> 0
                     [] node.kind = "assistant" -> 1
                     [] OTHER -> 2
    IN  CASE level = "conversations" ->
               IF node.branchLevel > 0
               THEN (IF node.kind = "assistant" THEN 2 + node.branchLevel ELSE 0 - 1)
               ELSE 0
          [] level \in {"details", "focus"} ->
               IF node.branchLevel > 0
               THEN LET base == 3 + (node.branchLevel - 1) * 2
                    IN  IF node.kind = "assistant" THEN base ELSE base + 1
               ELSE mainRow
          [] level = "sessions" -> 0

\* variant: one row per lane, 2 + branchLevel, agent replies on row 1
getVisualBranch_LaneRows(node, level) ==
    CASE level = "conversations" ->
           (CASE node.kind = "user" -> 0 [] node.kind = "assistant" -> 1 [] OTHER -> 2)
      [] level \in {"details", "focus"} ->
           (CASE node.kind = "user" -> 0
              [] node.kind = "assistant" -> 1
              [] OTHER -> 2 + node.branchLevel)
      [] level = "sessions" -> 0

\* the row of a node at a zoom level; -1 marks a node the caller filters out
getVisualBranch(node, level) ==
    LET mainRow == CASE node.kind = "user" -> 0
                     [] node.kind = "assistant" -> 1
                     [] OTHER -> 2
    IN  CASE level = "conversations" ->
               IF node.branchLevel > 0
               THEN (IF node.kind = "assistant" THEN 2 + node.branchLevel ELSE 0 - 1)
               ELSE mainRow
          [] level \in {"details", "focus"} ->
               IF node.branchLevel > 0
               THEN LET base == 3 + (node.branchLevel - 1) * 2
                    IN  IF node.kind = "assistant" THEN base ELSE base + 1
               ELSE mainRow
          [] level = "sessions" -> 0

\* variant: nothing is filtered
filterByZoom_All(nodes, level) == [i \in 1..Len(nodes) |-> i - 1]

\* the indices (0-based, into nodes) of the nodes shown at a zoom level
filterByZoom(nodes, level) ==
    CASE level = "sessions" ->
           IF Len(nodes) = 0 THEN <<>> ELSE << 0, Len(nodes) - 1 >>
      [] level = "conversations" ->
           SelectSeq([i \in 1..Len(nodes) |->
                        IF nodes[i].branchLevel = 0
                        THEN (IF nodes[i].kind \in {"user", "assistant"} THEN i - 1 ELSE 0 - 1)
                        ELSE (IF nodes[i].kind = "assistant" THEN i - 1 ELSE 0 - 1)],
                     LAMBDA i : i >= 0)
      [] level \in {"details", "focus"} -> [i \in 1..Len(nodes) |-> i - 1]

\* the loop of findStickyNode from column i on, best being the result so far
RECURSIVE stickyLoop(_, _, _, _, _, _, _)
stickyLoop(nodes, visibleIndices, branch, beforeGlobalCol, level, i, best) ==
    IF i < beforeGlobalCol /\ i < Len(visibleIndices)
    THEN LET idx == visibleIndices[i + 1]
         IN  stickyLoop(nodes, visibleIndices, branch, beforeGlobalCol, level, i + 1,
                        IF getVisualBranch(nodes[idx + 1], level) = branch
                        THEN Some(idx) ELSE best)
    ELSE best

\* variant: the column beforeGlobalCol itself is scanned too
findStickyNode_Inclusive(nodes, visibleIndices, branch, beforeGlobalCol, level) ==
    stickyLoop(nodes, visibleIndices, branch, beforeGlobalCol + 1, level, 0, None)

\* the index of the last node on row `branch` before column beforeGlobalCol;
\* null is None
findStickyNode(nodes, visibleIndices, branch, beforeGlobalCol, level) ==
    stickyLoop(nodes, visibleIndices, branch, beforeGlobalCol, level, 0, None)

-----------------------------------------------------------------------------
(* Part-store builder: buildOpenCodeGraph                                  *)

\* the UTF-16 code units of the ids the model uses
CharsOf(id) ==
    CASE id = "a" -> << 97 >>
      [] id = "ab" -> << 97, 98 >>
      [] id = "b" -> << 98 >>
      [] id = "c" -> << 99 >>
      [] id = "d" -> << 100 >>
      [] id = "e" -> << 101 >>
      [] id = "f" -> << 102 >>
      [] id = "g" -> << 103 >>
      [] id = "D" -> << 68 >>
      [] OTHER -> << 122 >>

OcPartIds == {"a", "ab", "b", "c", "d", "e", "f", "g", "D"}

\* x < y on strings: the order of the code units, a proper prefix first
RECURSIVE LexLess(_, _)
LexLess(x, y) ==
    IF y = <<>> THEN FALSE
    ELSE IF x = <<>> THEN TRUE
    ELSE IF Head(x) # Head(y) THEN Head(x) < Head(y)
    ELSE LexLess(Tail(x), Tail(y))

\* the letter a code unit stands for, whatever its case
FoldCase(c) == IF c \in 65..90 THEN c + 32 ELSE c

\* a.localeCompare(b) < 0 on ids made of ASCII letters: the collation
\* compares the letters first and lets case decide only between ids that
\* spell the same letters, lower case first
localeCompareLess(x, y) ==
    LET fx == [i \in 1..Len(x) |-> FoldCase(x[i])]
        fy == [i \in 1..Len(y) |-> FoldCase(y[i])]
    IN  IF fx # fy THEN LexLess(fx, fy)
        ELSE \E i \in 1..Len(x) :
                /\ x[i] > y[i]
                /\ \A j \in 1..(i - 1) : x[j] = y[j]

\* the place of an id in the order localeCompare gives the ids
IdRank(id) == Cardinality({j \in OcPartIds : localeCompareLess(CharsOf(j), CharsOf(id))})

\* [...parts].sort((a, b) => a.id.localeCompare(b.id))
sortParts(ps) ==
    LET keyed == StableSort([i \in 1..Len(ps) |-> [key |-> IdRank(ps[i].id), val |-> ps[i]]])
    IN  [i \in 1..Len(keyed) |-> keyed[i].val]

\* sort((a, b) => a.time.created - b.time.created)
sortByCreated(ms) ==
    LET keyed == StableSort([i \in 1..Len(ms) |-> [key |-> ms[i].created, val |-> ms[i]]])
    IN  [i \in 1..Len(keyed) |-> keyed[i].val]

mapTokens(msg) ==
    IF msg.tokens = None THEN None
    ELSE LET t == msg.tokens[1]
         IN  Some(Usage(Some(t.input), Some(t.output),
                        Some(IF t.cache = None THEN 0 ELSE t.cache[1].read),
                        Some(IF t.cache = None THEN 0 ELSE t.cache[1].write),
                        Some(orZero(t.reasoning))))

\* msg.modelID ?? msg.model?.modelID
getModelId(msg) == IF msg.modelID # NoStr THEN msg.modelID ELSE msg.modelModelID

\* text is a sequence of tokens; " " and "\n" are the whitespace tokens
IsSpace(tok) == tok = " " \/ tok = "\n"

RECURSIVE TrimStart(_)
TrimStart(t) == IF t # <<>> /\ IsSpace(Head(t)) THEN TrimStart(Tail(t)) ELSE t

RECURSIVE TrimEnd(_)
TrimEnd(t) ==
    IF t # <<>> /\ IsSpace(t[Len(t)]) THEN TrimEnd(SubSeq(t, 1, Len(t) - 1)) ELSE t

Trim(t) == TrimEnd(TrimStart(t))

\* texts.join("\n")
RECURSIVE JoinLines(_)
JoinLines(texts) ==
    IF texts = <<>> THEN <<>>
    ELSE IF Len(texts) = 1 THEN texts[1]
    ELSE texts[1] \o << "\n" >> \o JoinLines(Tail(texts))

\* a Node of the part-store builder, parentId still to be set
OcNode(id, kind, ts, turnId) ==
    [id |-> id, parentId |-> NoStr, kind |-> kind,
     text |-> <<>>, name |-> NoStr, input |-> NoStr,
     output |-> None, isError |-> FALSE, files |-> <<>>, hash |-> NoStr,
     timestamp |-> ts, branchLevel |-> 0, agentId |-> NoStr,
     model |-> NoStr, usage |-> None, cost |-> None,
     source |-> "opencode", turnId |-> turnId]

\* readParts(messageID): the part files of the message, in discovery order
readParts(ps, mid) == SelectSeq(ps, LAMBDA q : q.messageID = mid)

\* the user node of a turn, if its text parts hold any text
ocUserNodes(ps, user) ==
    LET userParts == sortParts(readParts(ps, user.id))
        userTextParts == SelectSeq(userParts, LAMBDA q : q.type = "text")
        userText == Trim(JoinLines([i \in 1..Len(userTextParts) |-> userTextParts[i].text]))
    IN  IF userText # <<>>
        THEN << [OcNode(user.id, "user", user.created, user.id) EXCEPT
                    !.text = userText, !.model = getModelId(user)] >>
        ELSE <<>>

\* the node of one part of an assistant message, if it makes one
ocPartNodes(asst, part, turnId) ==
    IF part.type \in {"step-start", "step-finish", "snapshot", "compaction"} THEN <<>>
    ELSE IF part.type = "text" /\ part.text # <<>>
    THEN << [OcNode(part.id, "assistant", IF part.start # None THEN part.start[1] ELSE asst.created, turnId)
               EXCEPT !.text = part.text, !.model = getModelId(asst),
                      !.usage = mapTokens(asst), !.cost = asst.cost] >>
    ELSE IF part.type = "reasoning" /\ part.text # <<>>
    THEN << [OcNode(part.id, "reasoning", IF part.start # None THEN part.start[1] ELSE asst.created, turnId)
               EXCEPT !.text = part.text, !.model = getModelId(asst)] >>
    ELSE IF part.type = "tool" /\ part.tool # NoStr /\ part.state # None
    THEN LET st == part.state[1]
         IN  << [OcNode(part.id, "tool_call", IF st.start # None THEN st.start[1] ELSE asst.created, turnId)
                   EXCEPT !.name = part.tool,
                          !.input = IF st.input # NoStr THEN st.input ELSE "{}",
                          !.output = IF st.status = "error"
                                     THEN (IF st.error # None THEN st.error ELSE Some("Unknown error"))
                                     ELSE st.output,
                          !.isError = (st.status = "error"),
                          !.model = getModelId(asst), !.usage = mapTokens(asst),
                          !.cost = asst.cost] >>
    ELSE IF part.type = "patch" /\ part.files # <<>> /\ part.hash # NoStr
    THEN << [OcNode(part.id, "patch", asst.created, turnId)
               EXCEPT !.files = part.files, !.hash = part.hash] >>
    ELSE <<>>

\* the nodes of one assistant message, its parts in id order
ocAssistantNodes(ps, asst, turnId) ==
    LET sorted == sortParts(readParts(ps, asst.id))
    IN  Flatten([i \in 1..Len(sorted) |-> ocPartNodes(asst, sorted[i], turnId)])

\* the assistants of the turn anchored at `user`, by creation time
ocAssistantsOf(sortedMsgs, user) ==
    sortByCreated(SelectSeq(sortedMsgs, LAMBDA m :
        m.role = "assistant" /\ m.parentID # NoStr /\ m.parentID = user.id))

\* the nodes of one turn, in emission order
ocTurnNodes(ps, sortedMsgs, user) ==
    LET assistants == ocAssistantsOf(sortedMsgs, user)
    IN  ocUserNodes(ps, user)
        \o Flatten([i \in 1..Len(assistants) |-> ocAssistantNodes(ps, assistants[i], user.id)])

\* variant: prevNodeId starts anew with every turn
RECURSIVE ocPush_PerTurn(_, _, _)
ocPush_PerTurn(emitted, nodes, prevNodeId) ==
    IF emitted = <<>> THEN nodes
    ELSE LET prev == IF nodes # <<>> /\ nodes[Len(nodes)].turnId # Head(emitted).turnId
                     THEN NoStr ELSE prevNodeId
         IN  ocPush_PerTurn(Tail(emitted),
                            Append(nodes, [Head(emitted) EXCEPT !.parentId = prev]),
                            Head(emitted).id)

\* nodes.push(node); prevNodeId = node.id, for each node in emission order
RECURSIVE ocPush(_, _, _)
ocPush(emitted, nodes, prevNodeId) ==
    IF emitted = <<>> THEN nodes
    ELSE ocPush(Tail(emitted),
                Append(nodes, [Head(emitted) EXCEPT !.parentId = prevNodeId]),
                Head(emitted).id)

ocEdgesOf(nodes) ==
    LET withParent == SelectSeq(nodes, LAMBDA n : n.parentId # NoStr)
    IN  [i \in 1..Len(withParent) |->
            [from |-> withParent[i].parentId, to |-> withParent[i].id, isBranch |-> FALSE]]

\* buildOpenCodeGraph, for the message and part records the reader returns
buildOpenCodeGraph(ms, ps) ==
    IF Len(ms) = 0 THEN [nodes |-> <<>>, edges |-> <<>>, stats |-> emptyStats]
    ELSE
    LET sortedMsgs == sortByCreated(ms)
        userMessages == sortByCreated(SelectSeq(sortedMsgs, LAMBDA m : m.role = "user"))
        emitted == Flatten([i \in 1..Len(userMessages) |->
                              ocTurnNodes(ps, sortedMsgs, userMessages[i])])
        nodes == ocPush(emitted, <<>>, NoStr)
        assistants == SelectSeq(sortedMsgs, LAMBDA m : m.role = "assistant")
    IN  [nodes |-> nodes,
         edges |-> ocEdgesOf(nodes),
         stats |-> computeStats([i \in 1..Len(assistants) |->
                      TokenInput(mapTokens(assistants[i]), getModelId(assistants[i]),
                                 assistants[i].cost)])]

-----------------------------------------------------------------------------
(* Inputs: the SessionEvent records of a log                               *)

Timestamps == 1..MaxTs
ToolIds == {"tool-1", "tool-2"}
ToolName(t) == IF t = "tool-1" THEN "read" ELSE "bash"
Outcomes == {[content |-> "ok", is_error |-> FALSE], [content |-> "err", is_error |-> TRUE]}

Block(type) ==
    [type |-> type, text |-> <<>>, id |-> NoStr, name |-> NoStr, input |-> NoStr,
     tool_use_id |-> NoStr, content |-> "", contentIsString |-> TRUE, is_error |-> FALSE]

MkEvent(uuid, type, agentId, ts) ==
    [uuid |-> uuid, parentUuid |-> NoStr, agentId |-> agentId, type |-> type,
     timestamp |-> ts, message |-> None,
     dataType |-> NoStr, dataAgentId |-> NoStr, parentToolUseID |-> NoStr]

Message(role, content) ==
    [role |-> role, content |-> content, model |-> NoStr, usage |-> None]

\* the uuid of the next record of the log
NextUuid(evs) == "e" \o ToString(Len(evs) + 1)

\* assistant entry with one tool_use block
ToolUseEvent(uuid, agentId, ts, t) ==
    [MkEvent(uuid, "assistant", agentId, ts) EXCEPT
        !.message = Some(Message("assistant",
            [isString |-> FALSE, str |-> <<>>,
             blocks |-> << [Block("tool_use") EXCEPT !.id = t, !.name = ToolName(t),
                                                       !.input = "{}"] >>]))]

\* user entry with one tool_result block
ToolResultEvent(uuid, agentId, ts, t, o) ==
    [MkEvent(uuid, "user", agentId, ts) EXCEPT
        !.message = Some(Message("user",
            [isString |-> FALSE, str |-> <<>>,
             blocks |-> << [Block("tool_result") EXCEPT !.tool_use_id = t,
                               !.content = o.content, !.is_error = o.is_error] >>]))]

\* user / assistant entry with string content
TextEvent(uuid, role, agentId, ts) ==
    [MkEvent(uuid, role, agentId, ts) EXCEPT
        !.message = Some(Message(role, [isString |-> TRUE, str |-> << "hello" >>,
                                        blocks |-> <<>>]))]

\* progress entry recording that tool call t spawned agent aid
SpawnEvent(uuid, ts, aid, t) ==
    [MkEvent(uuid, "progress", NoStr, ts) EXCEPT
        !.dataType = "agent_progress", !.dataAgentId = aid, !.parentToolUseID = t]

\* the tool ids some tool_use block of evs already carries
UsedToolIds(evs) ==
    {t \in ToolIds : \E i \in 1..Len(evs) :
        /\ evs[i].message # None
        /\ \E k \in 1..Len(evs[i].message[1].content.blocks) :
              LET b == evs[i].message[1].content.blocks[k]
              IN  b.type = "tool_use" /\ b.id = t}

\* main-line tool traffic: tool_use entries (ids unique within a log) and
\* tool_result entries naming any tool id
ToolEvents(evs) ==
    {ToolUseEvent(NextUuid(evs), NoStr, ts, t) :
        ts \in Timestamps, t \in ToolIds \ UsedToolIds(evs)}
    \cup {ToolResultEvent(NextUuid(evs), NoStr, ts, t, o) :
        ts \in Timestamps, t \in ToolIds, o \in Outcomes}

\* a log with a Task tool call, its result, one sub-agent's entries and its
\* spawn record, and a main-line entry that carries no uuid
MixedEvents(evs) ==
    {ToolUseEvent(NextUuid(evs), NoStr, ts, "tool-1") :
        ts \in IF "tool-1" \in UsedToolIds(evs) THEN {} ELSE Timestamps}
    \cup {ToolResultEvent(NextUuid(evs), NoStr, ts, "tool-1", [content |-> "ok", is_error |-> FALSE]) :
        ts \in Timestamps}
    \cup {TextEvent(NextUuid(evs), "user", "agent-1", ts) : ts \in Timestamps}
    \cup {TextEvent(NextUuid(evs), "assistant", "agent-1", ts) : ts \in Timestamps}
    \cup {SpawnEvent(NextUuid(evs), ts, "agent-1", "tool-1") : ts \in Timestamps}
    \cup {TextEvent(NoStr, "user", NoStr, ts) : ts \in Timestamps}

\* assistant entry whose content is one thinking block, with model and usage
ThinkingEvent(uuid, agentId, ts) ==
    [MkEvent(uuid, "assistant", agentId, ts) EXCEPT
        !.message = Some([Message("assistant",
                            [isString |-> FALSE, str |-> <<>>,
                             blocks |-> << Block("thinking") >>])
                          EXCEPT !.model = "m1",
                                 !.usage = Some(Usage(Some(1), Some(2), None, None, None))])]

\* entries that mostly give no node: thinking-only assistant entries, a
\* sub-agent's prompt, a spawn record; and one main-line prompt
SilentEvents(evs) ==
    {ThinkingEvent(NextUuid(evs), NoStr, ts) : ts \in Timestamps}
    \cup {TextEvent(NextUuid(evs), "user", "agent-1", ts) : ts \in Timestamps}
    \cup {SpawnEvent(NextUuid(evs), 1, "agent-1", "tool-1"),
          TextEvent(NextUuid(evs), "user", NoStr, 1)}

\* the entry e as a reply to the entry with uuid parent
ChildOf(e, parent) == [e EXCEPT !.parentUuid = parent]

\* a Task tool call on the main line, the record that it spawned agent-1,
\* agent-1's prompt, replies and tool call, and a reply of an agent that has
\* no spawn record
SpawnedEvents(evs) ==
    {ToolUseEvent(NextUuid(evs), NoStr, ts, "tool-1") :
        ts \in IF "tool-1" \in UsedToolIds(evs) THEN {} ELSE Timestamps}
    \cup {SpawnEvent(NextUuid(evs), 1, "agent-1", "tool-1")}
    \cup {TextEvent(NextUuid(evs), "user", "agent-1", ts) : ts \in Timestamps}
    \cup {ChildOf(TextEvent(NextUuid(evs), "assistant", "agent-1", ts), "p0") :
            ts \in Timestamps}
    \cup {ChildOf(ToolUseEvent(NextUuid(evs), "agent-1", ts, "tool-2"), "p0") :
            ts \in IF "tool-2" \in UsedToolIds(evs) THEN {} ELSE Timestamps}
    \cup {ChildOf(TextEvent(NextUuid(evs), "assistant", "agent-2", ts), "p0") :
            ts \in Timestamps}

-----------------------------------------------------------------------------
(* Operations of the single-log source                                     *)

\* the session file grows by one record and the watcher's callback rebuilds
AppendEvent(e) ==
    /\ Len(events) < MaxEvents
    /\ counterAfter(Append(events, e), counter) <= MaxCounter
    /\ events' = Append(events, e)
    /\ graph' = buildGraph(events', counter)
    /\ counter' = counterAfter(events', counter)
    /\ prevGraph' = NoGraph
    /\ UNCHANGED <<statsVars, ocVars, viewVars, appVars>>

\* readGraph(sessionId) on an unchanged log: the same events are built again
ReadGraph ==
    /\ graph.built
    /\ counterAfter(events, counter) <= MaxCounter
    /\ prevGraph' = graph
    /\ graph' = buildGraph(events, counter)
    /\ counter' = counterAfter(events, counter)
    /\ UNCHANGED <<events, statsVars, ocVars, viewVars, appVars>>

\* a sub-agent file is discovered: the next agent's entries, the first at
\* timestamp s and the last at timestamp e, join the log and it is rebuilt
DiscoverAgent(s, e) ==
    LET n == Len(agentOrder(events))
        aid == "agent-" \o ToString(n + 1)
        first == TextEvent(NextUuid(events), "assistant", aid, s)
        evs1 == Append(events, first)
        evs2 == IF e = s THEN evs1
                ELSE Append(evs1, TextEvent(NextUuid(evs1), "assistant", aid, e))
    IN  /\ n < MaxAgents
        /\ s <= e
        /\ events' = evs2
        /\ graph' = buildGraph(events', counter)
        /\ counter' = counterAfter(events', counter)
        /\ prevGraph' = NoGraph
        /\ UNCHANGED <<statsVars, ocVars, viewVars, appVars>>

LogInit ==
    /\ events = <<>>
    /\ counter = 0
    /\ graph = buildGraph(<<>>, 0)
    /\ prevGraph = NoGraph

\* the items the model hands to computeStats
StatsItems ==
    {TokenInput(None, NoStr, None),
     TokenInput(Some(Usage(None, None, None, None, None)), NoStr, None),
     TokenInput(Some(Usage(Some(1), Some(2), None, None, None)), NoStr, None),
     TokenInput(Some(Usage(None, None, Some(1), Some(2), Some(1))), NoStr, None),
     TokenInput(Some(Usage(Some(2), None, None, None, Some(0))), NoStr, None),
     TokenInput(Some(Usage(Some(3), Some(1), Some(2), Some(1), Some(2))), "m1", Some(1)),
     TokenInput(None, "m1", None),
     TokenInput(None, "m2", None),
     TokenInput(None, NoStr, Some(0)),
     TokenInput(None, NoStr, Some(1)),
     TokenInput(None, NoStr, Some(2)),
     TokenInput(None, NoStr, Some(0 - 1))}

\* one more item is aggregated: computeStats over the longer list
AddItem(it) ==
    /\ Len(items) < MaxItems
    /\ items' = Append(items, it)
    /\ stats' = computeStats(items')
    /\ UNCHANGED <<logVars, ocVars, viewVars, appVars>>

StatsInit ==
    /\ items = <<>>
    /\ stats = computeStats(<<>>)

\* the message records of the part store the model draws from
OcMessage(id, role, created, parentID) ==
    [id |-> id, role |-> role, created |-> created, parentID |-> parentID,
     modelID |-> NoStr, modelModelID |-> NoStr, cost |-> None, tokens |-> None]

OcMessages ==
    {OcMessage("u1", "user", 1, NoStr),
     OcMessage("u2", "user", 3, NoStr),
     [OcMessage("a1", "assistant", 2, "u1") EXCEPT
        !.modelID = "m1", !.cost = Some(1),
        !.tokens = Some([input |-> 1, output |-> 2, reasoning |-> None, cache |-> None])],
     OcMessage("a2", "assistant", 4, "u1"),
     OcMessage("a3", "assistant", 2, NoStr)}

\* the part records the model draws from
OcPart(id, messageID, type) ==
    [id |-> id, messageID |-> messageID, type |-> type, text |-> <<>>,
     tool |-> NoStr, state |-> None, files |-> <<>>, hash |-> NoStr, start |-> None]

OcParts ==
    {[OcPart("d", "u1", "text") EXCEPT !.text = << "hi" >>],
     [OcPart("e", "u2", "text") EXCEPT !.text = << "next" >>],
     [OcPart("a", "a1", "reasoning") EXCEPT !.text = << "think" >>],
     [OcPart("ab", "a1", "text") EXCEPT !.text = << "answer" >>, !.start = Some(2)],
     [OcPart("b", "a1", "tool") EXCEPT !.tool = "bash",
        !.state = Some([status |-> "completed", input |-> "{}", output |-> Some("ok"),
                        error |-> None, start |-> Some(3)])],
     [OcPart("c", "a2", "text") EXCEPT !.text = << "later" >>],
     [OcPart("f", "a1", "patch") EXCEPT !.files = << "f.ts" >>, !.hash = "h1"],
     [OcPart("g", "a3", "text") EXCEPT !.text = << "lost" >>],
     [OcPart("D", "a2", "reasoning") EXCEPT !.text = << "why" >>]}

\* part files of a session that is mostly messages without parts
SilentParts == {q \in OcParts : q.id \in {"d", "ab"}}

\* a message file appears and the watcher rebuilds
AddMessage(m) ==
    /\ Len(messages) < MaxMsgs
    /\ ~ \E i \in 1..Len(messages) : messages[i].id = m.id
    /\ messages' = Append(messages, m)
    /\ ocGraph' = buildOpenCodeGraph(messages', parts)
    /\ UNCHANGED <<parts, logVars, statsVars, viewVars, appVars>>

\* a part file of a known message appears and the watcher rebuilds
AddPart(q) ==
    /\ Len(parts) < MaxParts
    /\ \E i \in 1..Len(messages) : messages[i].id = q.messageID
    /\ ~ \E i \in 1..Len(parts) : parts[i] = q
    /\ parts' = Append(parts, q)
    /\ ocGraph' = buildOpenCodeGraph(messages, parts')
    /\ UNCHANGED <<messages, logVars, statsVars, viewVars, appVars>>

OcInit ==
    /\ messages = <<>>
    /\ parts = <<>>
    /\ ocGraph = buildOpenCodeGraph(<<>>, <<>>)

-----------------------------------------------------------------------------
(* Operations of the viewer on the zoom projector                          *)

\* a node as the projector sees it: its kind and its lane
ViewNode(kind, branchLevel) ==
    [MkNode(kind \o "-" \o ToString(branchLevel), NoStr, kind, 0,
            IF branchLevel > 0 THEN "agent-" \o ToString(branchLevel) ELSE NoStr)
       EXCEPT !.branchLevel = branchLevel]

\* main-line nodes, a reply and a tool call of the agent on lane 1, and a
\* reply of the agent on lane 2
ViewNodes ==
    {ViewNode(k, 0) : k \in {"user", "assistant", "tool_call"}}
    \cup {ViewNode(k, 1) : k \in {"assistant", "tool_call"}}
    \cup {ViewNode("assistant", 2)}

\* the rows and columns findStickyNode is asked about
StickyRows == {0 - 1, 0, 1, 3}
StickyColumns == 0..(MaxViewNodes + 1)

NoSticky == [called |-> FALSE, row |-> 0, beforeColumn |-> 0, result |-> None]

\* the graph on display grows by one node and is projected again
AddViewNode(n) ==
    /\ Len(viewNodes) < MaxViewNodes
    /\ viewNodes' = Append(viewNodes, n)
    /\ visible' = filterByZoom(viewNodes', zoom)
    /\ sticky' = NoSticky
    /\ UNCHANGED <<zoom, logVars, statsVars, ocVars, appVars>>

ZoomIn ==
    /\ zoom' = zoomIn(zoom)
    /\ visible' = filterByZoom(viewNodes, zoom')
    /\ sticky' = NoSticky
    /\ UNCHANGED <<viewNodes, logVars, statsVars, ocVars, appVars>>

ZoomOut ==
    /\ zoom' = zoomOut(zoom)
    /\ visible' = filterByZoom(viewNodes, zoom')
    /\ sticky' = NoSticky
    /\ UNCHANGED <<viewNodes, logVars, statsVars, ocVars, appVars>>

\* the sticky node of a row is looked up before a column of the projection,
\* once per projection
FindSticky(row, beforeColumn) ==
    /\ ~ sticky.called
    /\ sticky' = [called |-> TRUE, row |-> row, beforeColumn |-> beforeColumn,
                  result |-> findStickyNode(viewNodes, visible, row, beforeColumn, zoom)]
    /\ UNCHANGED <<zoom, viewNodes, visible, logVars, statsVars, ocVars, appVars>>

ViewInit ==
    /\ zoom = "details"
    /\ viewNodes = <<>>
    /\ visible = filterByZoom(<<>>, "details")
    /\ sticky = NoSticky

-----------------------------------------------------------------------------
(* Multi-Source Reconciler: createMultiSource                              *)
(* A session id is the sequence of its pieces; a piece is ":" or a         *)
(* non-empty run of other characters, so indexOf(":") is <= 0 exactly when *)
(* the string has no ":" or starts with one.                               *)

\* String.prototype.indexOf: the 0-based position of the first piece, -1 if none
indexOf(id, piece) ==
    LET at == {i \in 1..Len(id) : id[i] = piece}
    IN  IF at = {} THEN 0 - 1 ELSE MinOf(at) - 1

\* String.prototype.slice(from) and slice(0, to), 0-based
sliceFrom(id, from) == SubSeq(id, from + 1, Len(id))
sliceTo(id, to) == SubSeq(id, 1, to)

\* `${kind}:${id}`
encodeSessionId(kind, id) == kind \o <<":">> \o id

\* variant: the id is split at its last ":"
decodeSessionId_LastColon(id) ==
    LET at == {i \in 1..Len(id) : id[i] = ":"}
        idx == IF at = {} THEN 0 - 1 ELSE MaxOf(at) - 1
    IN  IF idx <= 0 THEN None
        ELSE Some([kind |-> sliceTo(id, idx), id |-> sliceFrom(id, idx + 1)])

\* null (None) when there is no ":" after a non-empty prefix
decodeSessionId(id) ==
    LET idx == indexOf(id, ":")
    IN  IF idx <= 0 THEN None
        ELSE Some([kind |-> sliceTo(id, idx), id |-> sliceFrom(id, idx + 1)])

\* new Map(entries.map(e => [e.kind, e.source])).get(kind): the last entry
\* of that kind, None when there is none
byKind(es, kind) ==
    LET at == {i \in 1..Len(es) : es[i].kind = kind}
    IN  IF at = {} THEN None ELSE Some(es[MaxOf(at)])

\* listSessions of the multi-source: every adapter's sessions under their
\* encoded ids, newest first
multiListSessions(es) ==
    LET all == Flatten([i \in 1..Len(es) |->
                  [j \in 1..Len(es[i].sessions) |->
                     [id |-> encodeSessionId(es[i].kind, es[i].sessions[j].id),
                      timestamp |-> es[i].sessions[j].timestamp,
                      source |-> es[i].kind]]])
        keyed == StableSort([i \in 1..Len(all) |->
                               [key |-> 0 - all[i].timestamp, val |-> all[i]]])
    IN  [i \in 1..Len(keyed) |-> keyed[i].val]

\* the operations an adapter may lack
OptionalOps == {"sendMessage", "abortSession"}
SourceOps == {"readGraph", "watch"} \cup OptionalOps

\* readGraph, watch, sendMessage and abortSession of the multi-source: the
\* call the owning adapter receives, None when the multi-source returns
\* without calling an adapter
multiCall(es, op, sessionId) ==
    LET decoded == decodeSessionId(sessionId)
    IN  IF decoded = None THEN None
        ELSE LET source == byKind(es, decoded[1].kind)
             IN  IF source = None THEN None
                 ELSE IF op \in OptionalOps /\ ~ source[1].online THEN None
                 ELSE Some([kind |-> source[1].kind, op |-> op, id |-> decoded[1].id])

\* the adapters main() composes: the part store when its storage exists,
\* with sendMessage and abortSession when a server is given, and the
\* single-log adapter, which has neither
MainEntries(storageExists, server) ==
    (IF storageExists
     THEN <<[kind |-> <<"opencode">>, sessions |-> <<>>, online |-> server]>>
     ELSE <<>>)
    \o <<[kind |-> <<"claude">>, sessions |-> <<>>, online |-> FALSE]>>

\* native session ids, one of them with ":" inside and one starting with it
NativeIds == {<<"s1">>, <<"ses", ":", "1">>, <<":", "s1">>}
SessionTimes == {1, 2}

NoCall == [op |-> NoStr, sessionId |-> <<>>, called |-> None]

CreateMultiSource(storageExists, server) ==
    /\ entries = <<>>
    /\ (server => storageExists)
    /\ entries' = MainEntries(storageExists, server)
    /\ UNCHANGED <<sessionList, routed, coreVars, watchVars, cursorVars, ruleVars>>

\* an adapter finds one more session in its storage
DiscoverSession(i, id, ts) ==
    /\ i \in 1..Len(entries)
    /\ Len(Flatten([k \in 1..Len(entries) |-> entries[k].sessions])) < MaxSessions
    /\ \A j \in 1..Len(entries[i].sessions) : entries[i].sessions[j].id # id
    /\ entries' = [entries EXCEPT ![i].sessions =
                        Append(@, [id |-> id, timestamp |-> ts])]
    /\ UNCHANGED <<sessionList, routed, coreVars, watchVars, cursorVars, ruleVars>>

ListSessions ==
    /\ entries # <<>>
    /\ sessionList' = multiListSessions(entries)
    /\ routed' = NoCall
    /\ UNCHANGED <<entries, coreVars, watchVars, cursorVars, ruleVars>>

\* the viewer calls an operation of the multi-source with a listed id
CallSource(op, k) ==
    /\ k \in 1..Len(sessionList)
    /\ routed' = [op |-> op, sessionId |-> sessionList[k].id,
                  called |-> multiCall(entries, op, sessionList[k].id)]
    /\ UNCHANGED <<entries, sessionList, coreVars, watchVars, cursorVars, ruleVars>>

MultiInit ==
    /\ entries = <<>>
    /\ sessionList = <<>>
    /\ routed = NoCall

-----------------------------------------------------------------------------
(* Part-store adapter: watch, and the viewer's watch effect                *)

\* the delay of the rebuild timer
DebounceMs == 150

Sessions == {"A", "B"}

\* clearTimeout(handle): a handle that is null (0) or has fired clears nothing
clearTimeout(ts, handle) == {t \in ts : t.id # handle}

\* setTimeout(callback of subscription i, delay) at time now, returning id
setTimeout(ts, id, i, now, delay) == ts \cup {[id |-> id, sub |-> i, due |-> now + delay]}

\* variant: the pending timer is left to run
rebuild_Stacked(ts, i, handle, id, now) == setTimeout(ts, id, i, now, DebounceMs)

\* rebuild of subscription i, whose debounceTimer holds handle: the timer
\* table after `if (debounceTimer) clearTimeout(debounceTimer)` and
\* `debounceTimer = setTimeout(..., 150)`
rebuild(ts, i, handle, id, now) ==
    setTimeout(IF handle # 0 THEN clearTimeout(ts, handle) ELSE ts, id, i, now, DebounceMs)

\* buildOpenCodeGraph(sessionId) at a moment: the graph of that session's
\* store as written so far
GraphOf(session, st) == [session |-> session, changes |-> st[session]]

\* source.watch(sessionId, onUpdate): a watcher with no timer yet
NewSub(session) == [session |-> session, debounceTimer |-> 0, closed |-> FALSE]

NotifyCount == Cardinality({k \in 1..Len(watchLog) : watchLog[k].type = "notify"})
SwitchCount == Cardinality({k \in 1..Len(watchLog) : watchLog[k].type = "switch"})

\* a file of the session is added or changed and the watcher of
\* subscription i reports it: rebuild() runs
Notify(i) ==
    /\ i \in 1..Len(subs)
    /\ ~ subs[i].closed
    /\ NotifyCount < MaxNotifs
    /\ stores' = [stores EXCEPT ![subs[i].session] = @ + 1]
    /\ timers' = rebuild(timers, i, subs[i].debounceTimer, NotifyCount + 1, clock)
    /\ subs' = [subs EXCEPT ![i].debounceTimer = NotifyCount + 1]
    /\ watchLog' = Append(watchLog, [type |-> "notify", session |-> subs[i].session,
                                     at |-> clock])
    /\ UNCHANGED <<clock, shown, coreVars, multiVars, cursorVars, ruleVars>>

\* a due timer runs its callback: the graph is built and handed to
\* onUpdate, where the viewer's setGraph replaces the graph on display
Fire(t) ==
    /\ t \in timers
    /\ t.due <= clock
    /\ timers' = timers \ {t}
    /\ shown' = [shown EXCEPT !.graph = GraphOf(subs[t.sub].session, stores),
                              !.updates = @ + 1]
    /\ watchLog' = Append(watchLog, [type |-> "rebuild", session |-> subs[t.sub].session,
                                     at |-> clock])
    /\ UNCHANGED <<clock, subs, stores, coreVars, multiVars, cursorVars, ruleVars>>

\* 50 ms pass; a timer runs when it is due, before more time passes
Tick ==
    /\ clock + 50 <= MaxClock
    /\ \A t \in timers : t.due > clock
    /\ ~ shown.effectDue
    /\ clock' = clock + 50
    /\ UNCHANGED <<timers, subs, stores, watchLog, shown, coreVars, multiVars,
                   cursorVars, ruleVars>>

\* switchSession(s): the session's graph is read and, with the session id,
\* committed to the display; the watch effect is due when the id changed
SwitchSession(s) ==
    /\ SwitchCount < MaxSwitches
    /\ ~ shown.effectDue
    /\ shown' = [shown EXCEPT !.graph = GraphOf(s, stores),
                              !.sessionId = s,
                              !.effectDue = (s # shown.sessionId)]
    /\ watchLog' = Append(watchLog, [type |-> "switch", session |-> s, at |-> clock])
    /\ UNCHANGED <<clock, timers, subs, stores, coreVars, multiVars, cursorVars, ruleVars>>

\* the watch effect runs for the new session id: the cleanup of the old
\* subscription clears its debounceTimer and closes its watcher, then
\* source.watch subscribes to the session on display
RunWatchEffect ==
    LET old == shown.watching
        handle == subs[old].debounceTimer
    IN  /\ shown.effectDue
        /\ timers' = IF handle # 0 THEN clearTimeout(timers, handle) ELSE timers
        /\ subs' = Append([subs EXCEPT ![old].closed = TRUE], NewSub(shown.sessionId))
        /\ shown' = [shown EXCEPT !.watching = Len(subs) + 1, !.effectDue = FALSE]
        /\ UNCHANGED <<clock, stores, watchLog, coreVars, multiVars, cursorVars, ruleVars>>

\* the viewer is mounted on session A and its watch effect has subscribed
WatchInit ==
    /\ clock = 0
    /\ timers = {}
    /\ subs = <<NewSub("A")>>
    /\ stores = [s \in Sessions |-> 0]
    /\ watchLog = <<>>
    /\ shown = [sessionId |-> "A", graph |-> GraphOf("A", [s \in Sessions |-> 0]),
                watching |-> 1, effectDue |-> FALSE, updates |-> 0]

-----------------------------------------------------------------------------
(* Tool icon rules: getToolUi                                              *)
(* A tool name or input is the sequence of its pieces: words and the       *)
(* separators "/", ":" and "_"; the words of an input are one space apart. *)
(* A pattern is what new RegExp(source, "i") makes of its source.          *)

\* String.prototype.toLowerCase, piece by piece
LowerPiece(p) ==
    CASE p = "Bash" -> "bash"
      [] p = "GIT" -> "git"
      [] p = "GREP" -> "grep"
      [] OTHER -> p
toLowerCase(text) == [i \in 1..Len(text) |-> LowerPiece(text[i])]

\* name.trim().toLowerCase()
normalizeToolName(name) == toLowerCase(Trim(name))

\* split(/[/:]/).filter(Boolean): the non-empty runs between "/" and ":"
RECURSIVE splitParts(_, _, _)
splitParts(text, cur, acc) ==
    IF text = <<>> THEN (IF cur = <<>> THEN acc ELSE Append(acc, cur))
    ELSE IF Head(text) \in {"/", ":"}
         THEN splitParts(Tail(text), <<>>, IF cur = <<>> THEN acc ELSE Append(acc, cur))
         ELSE splitParts(Tail(text), Append(cur, Head(text)), acc)

baseToolName(name) ==
    LET normalized == normalizeToolName(name)
        ps == splitParts(normalized, <<>>, <<>>)
    IN  IF Len(ps) > 0 THEN ps[Len(ps)] ELSE normalized

\* String.prototype.includes
includes(text, needle) ==
    \E i \in 0..(Len(text) - Len(needle)) : SubSeq(text, i + 1, i + Len(needle)) = needle

\* the patterns of the rules: \bW\b, ^W and the unterminated class "["
WordPattern(w) == [form |-> "word", arg |-> w]
PrefixPattern(w) == [form |-> "prefix", arg |-> w]
InvalidPattern == [form |-> "invalid", arg |-> "["]

\* new RegExp(source, "i") throws a SyntaxError
regExpThrows(p) == p.form = "invalid"

\* re.test(text) under the i flag
regExpTest(p, text) ==
    IF p.form = "word"
    THEN \E i \in 1..Len(text) : LowerPiece(text[i]) = LowerPiece(p.arg)
    ELSE Len(text) > 0 /\ LowerPiece(text[1]) = LowerPiece(p.arg)

\* a ToolIconRule; a field that is absent is NoStr, <<>> or None
Rule(tool, icon) ==
    [icon |-> icon, iconId |-> NoStr, tool |-> tool, toolPattern |-> None,
     inputContains |-> <<>>, inputPattern |-> None, source |-> NoStr]

DEFAULT_RULES ==
    << [Rule(<<"bash">>, "herb") EXCEPT !.inputPattern = Some(WordPattern("git"))],
       [Rule(<<"bash">>, "magnifier") EXCEPT !.inputPattern = Some(WordPattern("grep"))],
       [Rule(<<"bash">>, "desktop") EXCEPT !.iconId = "simple-icons:gnubash"],
       [Rule(<<"shell">>, "desktop") EXCEPT !.iconId = "simple-icons:gnubash"],
       [Rule(<<"git">>, "herb") EXCEPT !.iconId = "simple-icons:git"],
       [Rule(<<"github">>, "octopus") EXCEPT !.iconId = "simple-icons:github"],
       [Rule(<<"python">>, "snake") EXCEPT !.iconId = "simple-icons:python"],
       Rule(<<"read">>, "book"),
       Rule(<<"write">>, "memo"),
       Rule(<<"edit">>, "thread"),
       Rule(<<"patch">>, "puzzle"),
       Rule(<<"file">>, "page"),
       Rule(<<"search">>, "glass"),
       Rule(<<"web">>, "globe"),
       Rule(<<"http">>, "globe"),
       Rule(<<"fetch">>, "dish") >>

\* variant: a pattern that does not compile is passed over as a condition
ruleMatches_InvalidIgnored(rule, match) ==
    IF rule.source # NoStr /\ rule.source # match.source THEN FALSE
    ELSE IF /\ rule.tool # <<>>
            /\ normalizeToolName(match.name) # normalizeToolName(rule.tool)
            /\ baseToolName(match.name) # normalizeToolName(rule.tool)
         THEN FALSE
    ELSE IF /\ rule.toolPattern # None
            /\ ~ regExpThrows(rule.toolPattern[1])
            /\ ~ regExpTest(rule.toolPattern[1], match.name)
         THEN FALSE
    ELSE IF /\ rule.inputContains # <<>>
            /\ (match.input = <<>>
                \/ ~ includes(toLowerCase(match.input), toLowerCase(rule.inputContains)))
         THEN FALSE
    ELSE IF /\ rule.inputPattern # None
            /\ (match.input = <<>>
                \/ (/\ ~ regExpThrows(rule.inputPattern[1])
                    /\ ~ regExpTest(rule.inputPattern[1], match.input)))
         THEN FALSE
    ELSE TRUE

\* the checks of ruleMatches in their order, each returning false or
\* falling through to the next
ruleMatches(rule, match) ==
    IF rule.source # NoStr /\ rule.source # match.source THEN FALSE
    ELSE IF /\ rule.tool # <<>>
            /\ normalizeToolName(match.name) # normalizeToolName(rule.tool)
            /\ baseToolName(match.name) # normalizeToolName(rule.tool)
         THEN FALSE
    ELSE IF /\ rule.toolPattern # None
            /\ (regExpThrows(rule.toolPattern[1])
                \/ ~ regExpTest(rule.toolPattern[1], match.name))
         THEN FALSE
    ELSE IF /\ rule.inputContains # <<>>
            /\ (match.input = <<>>
                \/ ~ includes(toLowerCase(match.input), toLowerCase(rule.inputContains)))
         THEN FALSE
    ELSE IF /\ rule.inputPattern # None
            /\ (match.input = <<>>
                \/ regExpThrows(rule.inputPattern[1])
                \/ ~ regExpTest(rule.inputPattern[1], match.input))
         THEN FALSE
    ELSE TRUE

\* null (None) unless the node is a tool_call or a tool_use
getToolMatch(node) ==
    IF node.kind # "tool_call" /\ node.kind # "tool_use" THEN None
    ELSE Some([name |-> node.name, input |-> node.input, source |-> node.source])

\* cachedRules after loadRules()
loadRules(cached, user) == IF cached = None THEN user \o DEFAULT_RULES ELSE cached[1]

\* the loop of getToolUi from rule k on
RECURSIVE toolUiLoop(_, _, _)
toolUiLoop(rs, match, k) ==
    IF k > Len(rs) THEN None
    ELSE IF ruleMatches(rs[k], match)
         THEN Some([iconText |-> rs[k].icon, iconId |-> rs[k].iconId])
         ELSE toolUiLoop(rs, match, k + 1)

getToolUi(node, rs) ==
    LET match == getToolMatch(node)
    IN  IF match = None THEN None ELSE toolUiLoop(rs, match[1], 1)

\* rules a user writes: the ones of the tests, one whose inputPattern does
\* not compile, and one without conditions
UserRuleChoices ==
    { [Rule(<<"bash">>, "u-git") EXCEPT !.inputPattern = Some(WordPattern("git"))],
      [Rule(<<>>, "u-bomb") EXCEPT !.toolPattern = Some(InvalidPattern)],
      [Rule(<<"bash">>, "u-broken") EXCEPT !.inputPattern = Some(InvalidPattern)],
      [Rule(<<>>, "u-read") EXCEPT !.toolPattern = Some(PrefixPattern("read"))],
      [Rule(<<"read">>, "u-oc") EXCEPT !.source = "opencode"],
      [Rule(<<"Bash">>, "u-grep") EXCEPT !.inputContains = <<"GREP">>],
      Rule(<<>>, "u-any") }

ToolNode(kind, name, input, source) ==
    [kind |-> kind, name |-> name, input |-> input, source |-> source]

\* nodes getToolUi is asked about
ToolNodes ==
    {ToolNode("tool_call", n, i, "claude") :
        n \in {<<"Bash">>, <<"tools", "/", "read">>, <<"read", "_", "file">>},
        i \in {<<>>, <<"GIT", "status">>}}
    \cup {ToolNode("tool_use", <<"bash">>, <<"grep", "foo">>, "opencode"),
          ToolNode("tool_call", <<"read">>, <<>>, "opencode"),
          ToolNode("tool_call", <<"task">>, <<"ls">>, NoStr),
          ToolNode("assistant", <<"bash">>, <<"git", "status">>, "claude")}

NoLookup == [called |-> FALSE, node |-> ToolNode(NoStr, <<>>, <<>>, NoStr), result |-> None]

\* the user's tool-icons.json gets one more rule
AddUserRule(r) ==
    /\ Len(userRules) < MaxUserRules
    /\ userRules' = Append(userRules, r)
    /\ UNCHANGED <<cachedRules, lookup, coreVars, multiVars, watchVars, cursorVars>>

\* a cell of the timeline asks for the icon of a node
GetToolUi(node) ==
    /\ cachedRules' = Some(loadRules(cachedRules, userRules))
    /\ lookup' = [called |-> TRUE, node |-> node,
                  result |-> getToolUi(node, loadRules(cachedRules, userRules))]
    /\ UNCHANGED <<userRules, coreVars, multiVars, watchVars, cursorVars>>

RuleInit ==
    /\ userRules = <<>>
    /\ cachedRules = None
    /\ lookup = NoLookup

-----------------------------------------------------------------------------
(* The viewer's cursor: App in normal mode with the session list closed    *)
(* Rows, positions and node indices are 0-based as in the code.            *)

\* graph.nodes.filter(n => getVisualBranch(n, zoom) === level).length
nodesInLevelOf(nodes, level, z) ==
    Cardinality({i \in 1..Len(nodes) : getVisualBranch(nodes[i], z) = level})

\* the global index of the nth node of a row, None when there is none
getNthNodeInLevel(nodes, level, z, nth) ==
    LET at == {i \in 1..Len(nodes) :
                 /\ getVisualBranch(nodes[i], z) = level
                 /\ nodesInLevelOf(SubSeq(nodes, 1, i - 1), level, z) = nth}
    IN  IF at = {} THEN None ELSE Some(MinOf(at) - 1)

getMaxLevel(nodes, z) ==
    MaxOf({1} \cup {getVisualBranch(nodes[i], z) : i \in 1..Len(nodes)})

Abs(x) == IF x < 0 THEN 0 - x ELSE x

\* the position in the row of the first node nearest in time, 0 for an
\* empty row
findNearestInLevel(nodes, level, z, targetTs) ==
    LET row == {i \in 1..Len(nodes) : getVisualBranch(nodes[i], z) = level}
        best == {i \in row :
                   \A j \in row :
                      \/ Abs(nodes[i].timestamp - targetTs) < Abs(nodes[j].timestamp - targetTs)
                      \/ (Abs(nodes[i].timestamp - targetTs) = Abs(nodes[j].timestamp - targetTs)
                          /\ i <= j)}
    IN  IF row = {} THEN 0
        ELSE nodesInLevelOf(SubSeq(nodes, 1, MinOf(best) - 1), level, z)

\* the row and position of the node next to currentNodeIdx, None at a
\* boundary or without a current node
stepChronological(nodes, z, currentNodeIdx, direction) ==
    IF currentNodeIdx = None THEN None
    ELSE LET nextIdx == currentNodeIdx[1] + direction
         IN  IF nextIdx < 0 \/ nextIdx >= Len(nodes) THEN None
             ELSE LET level == getVisualBranch(nodes[nextIdx + 1], z)
                  IN  Some([level |-> level,
                            pos |-> nodesInLevelOf(SubSeq(nodes, 1, nextIdx), level, z)])

\* variant: the first position of the last node's row
getLatestNodePosition_First(nodes, z) ==
    IF Len(nodes) = 0 THEN [level |-> 0, pos |-> 0]
    ELSE [level |-> getVisualBranch(nodes[Len(nodes)], z), pos |-> 0]

\* the last node's row and the last position of that row
getLatestNodePosition(nodes, z) ==
    IF Len(nodes) = 0 THEN [level |-> 0, pos |-> 0]
    ELSE LET level == getVisualBranch(nodes[Len(nodes)], z)
             pos == nodesInLevelOf(nodes, level, z)
         IN  [level |-> level, pos |-> IF pos - 1 > 0 THEN pos - 1 ELSE 0]

\* useState(() => ...): the position of the last user message in row 0
initialCursor(nodes) ==
    LET users == {i \in 1..Len(nodes) :
                    /\ getVisualBranch(nodes[i], "details") = 0
                    /\ nodes[i].kind = "user"}
    IN  IF users = {} THEN 0
        ELSE nodesInLevelOf(SubSeq(nodes, 1, MaxOf(users) - 1), 0, "details")

\* the graph's nodes carry their place in time
Stamp(n, t) == [n EXCEPT !.timestamp = t]

\* the graphs a session is opened with: one node, or a user message and
\* one node after it
InitialGraphs ==
    {<<Stamp(n, 1)>> : n \in ViewNodes}
    \cup {<<Stamp(ViewNode("user", 0), 1), Stamp(m, 2)>> : m \in ViewNodes}

NoKey == [key |-> NoStr, called |-> NoStr]
Handled(key, called) == [key |-> key, called |-> called]

\* what a render of App derives from its state
currentNodeIdx == getNthNodeInLevel(viewNodes, currentLevel, zoom, cursorInLevel)
nodesInLevel == nodesInLevelOf(viewNodes, currentLevel, zoom)

\* App is rendered with the session's graph and its watch effect runs
Mount(nodes) ==
    /\ ~ mounted.done
    /\ viewNodes = <<>>
    /\ zoom = "details"
    /\ viewNodes' = nodes
    /\ visible' = filterByZoom(nodes, zoom)
    /\ sticky' = NoSticky
    /\ currentLevel' = 0
    /\ cursorInLevel' = initialCursor(nodes)
    /\ closure' = [currentLevel |-> 0, cursorInLevel |-> initialCursor(nodes),
                   zoom |-> "details"]
    /\ mounted' = [done |-> TRUE,
                   onNode |-> getNthNodeInLevel(nodes, 0, "details", initialCursor(nodes)) # None]
    /\ UNCHANGED <<zoom, follow, lastKey, logVars, statsVars, ocVars, multiVars,
                   watchVars, ruleVars>>

\* the watch callback delivers the rebuilt graph, one node longer
WatchUpdate(n) ==
    LET newNodes == Append(viewNodes, Stamp(n, Len(viewNodes) + 1))
        latest == getLatestNodePosition(newNodes, closure.zoom)
        oldCount == nodesInLevelOf(viewNodes, closure.currentLevel, closure.zoom)
        newCount == nodesInLevelOf(newNodes, closure.currentLevel, closure.zoom)
        isAtEnd == closure.cursorInLevel >= oldCount - 2
    IN  /\ mounted.done
        /\ Len(viewNodes) < MaxViewNodes
        /\ viewNodes' = newNodes
        /\ visible' = filterByZoom(newNodes, zoom)
        /\ sticky' = NoSticky
        /\ currentLevel' = IF follow THEN latest.level ELSE currentLevel
        /\ cursorInLevel' =
              IF follow THEN latest.pos
              ELSE IF isAtEnd /\ newCount > oldCount
                   THEN (IF newCount - 1 > 0 THEN newCount - 1 ELSE 0)
                   ELSE cursorInLevel
        /\ lastKey' = Handled(NoStr, "onUpdate")
        /\ UNCHANGED <<zoom, mounted, follow, closure, logVars, statsVars, ocVars,
                       multiVars, watchVars, ruleVars>>

\* the keys of useInput that take part: timeline navigation, f, z and x;
\* abortSession is whether the source has that operation
Keys == {"shift+left", "shift+right", "h", "l", "j", "k", "g", "G", "f", "z", "x"}

Press(key, abortSession) ==
    LET latest == getLatestNodePosition(viewNodes, zoom)
        back == stepChronological(viewNodes, zoom, currentNodeIdx, 0 - 1)
        forth == stepChronological(viewNodes, zoom, currentNodeIdx, 1)
        ts == IF currentNodeIdx = None THEN 0
              ELSE viewNodes[currentNodeIdx[1] + 1].timestamp
        cursor(level, pos, fol) ==
            /\ currentLevel' = level
            /\ cursorInLevel' = pos
            /\ follow' = fol
    IN  /\ mounted.done
        /\ lastKey' = Handled(key, IF key = "x" /\ abortSession THEN "abortSession" ELSE NoStr)
        /\ CASE key = "f" ->
                   IF ~ follow THEN cursor(latest.level, latest.pos, TRUE)
                   ELSE cursor(currentLevel, cursorInLevel, FALSE)
              [] key = "shift+left" ->
                   cursor(currentLevel, IF cursorInLevel - 1 > 0 THEN cursorInLevel - 1 ELSE 0,
                          FALSE)
              [] key = "shift+right" ->
                   cursor(currentLevel,
                          IF cursorInLevel + 1 < nodesInLevel - 1
                          THEN cursorInLevel + 1 ELSE nodesInLevel - 1,
                          FALSE)
              [] key = "h" ->
                   IF back # None THEN cursor(back[1].level, back[1].pos, FALSE)
                   ELSE cursor(currentLevel, cursorInLevel, FALSE)
              [] key = "l" ->
                   IF forth # None THEN cursor(forth[1].level, forth[1].pos, FALSE)
                   ELSE cursor(currentLevel, cursorInLevel, FALSE)
              [] key = "j" ->
                   IF currentLevel < getMaxLevel(viewNodes, zoom)
                   THEN cursor(currentLevel + 1,
                               IF ts # 0
                               THEN findNearestInLevel(viewNodes, currentLevel + 1, zoom, ts)
                               ELSE 0,
                               FALSE)
                   ELSE cursor(currentLevel, cursorInLevel, FALSE)
              [] key = "k" ->
                   IF currentLevel > 0
                   THEN cursor(currentLevel - 1,
                               IF ts # 0
                               THEN findNearestInLevel(viewNodes, currentLevel - 1, zoom, ts)
                               ELSE 0,
                               FALSE)
                   ELSE cursor(currentLevel, cursorInLevel, FALSE)
              [] key = "g" -> cursor(currentLevel, 0, FALSE)
              [] key = "G" ->
                   cursor(currentLevel, IF nodesInLevel - 1 > 0 THEN nodesInLevel - 1 ELSE 0,
                          FALSE)
              [] OTHER -> cursor(currentLevel, cursorInLevel, follow)
        /\ UNCHANGED <<mounted, closure, viewVars, logVars, statsVars, ocVars,
                       multiVars, watchVars, ruleVars>>

\* handleCommandSubmit of a source that can send: the text is sent and
\* follow mode is switched on
SubmitCommand ==
    /\ mounted.done
    /\ follow' = TRUE
    /\ lastKey' = Handled(NoStr, "sendMessage")
    /\ UNCHANGED <<mounted, currentLevel, cursorInLevel, closure, viewVars, logVars,
                   statsVars, ocVars, multiVars, watchVars, ruleVars>>

CursorInit ==
    /\ mounted = [done |-> FALSE, onNode |-> FALSE]
    /\ currentLevel = 0
    /\ cursorInLevel = 0
    /\ follow = FALSE
    /\ closure = [currentLevel |-> 0, cursorInLevel |-> 0, zoom |-> "details"]
    /\ lastKey = NoKey

Init ==
    /\ LogInit /\ StatsInit /\ OcInit /\ ViewInit
    /\ MultiInit /\ WatchInit /\ RuleInit /\ CursorInit

\* a log of tool calls and results
ToolsNext == \E e \in ToolEvents(events) : AppendEvent(e)

SpecTools == Init /\ [][ToolsNext]_vars

\* a log with a sub-agent and entries without uuid
Next ==
    \/ \E e \in MixedEvents(events) : AppendEvent(e)
    \/ ReadGraph

Spec == Init /\ [][Next]_vars

\* a log of sub-agent runs
AgentsNext == \E s \in 1..MaxSpanTs, e \in 1..MaxSpanTs : DiscoverAgent(s, e)

SpecAgents == Init /\ [][AgentsNext]_vars

\* computeStats over growing lists of items
StatsNext == \E it \in StatsItems : AddItem(it)

SpecStats == Init /\ [][StatsNext]_vars

\* a session of the part store being written
OcNext ==
    \/ \E m \in OcMessages : AddMessage(m)
    \/ \E q \in OcParts : AddPart(q)

SpecOc == Init /\ [][OcNext]_vars

\* a multi-source over the adapters of main()
MultiNext ==
    \/ \E storageExists \in BOOLEAN, server \in BOOLEAN :
          CreateMultiSource(storageExists, server)
    \/ \E i \in 1..2, id \in NativeIds, ts \in SessionTimes : DiscoverSession(i, id, ts)
    \/ ListSessions
    \/ \E op \in SourceOps, k \in 1..MaxSessions : CallSource(op, k)

SpecMulti == Init /\ [][MultiNext]_vars

\* one session of the part store being watched
WatchNext ==
    \/ \E i \in 1..(MaxSwitches + 1) : Notify(i)
    \/ \E t \in timers : Fire(t)
    \/ Tick

SpecWatch == Init /\ [][WatchNext]_vars

\* the viewer switching between watched sessions of the part store
SwitchNext ==
    \/ \E s \in Sessions : SwitchSession(s)
    \/ RunWatchEffect
    \/ \E i \in 1..(MaxSwitches + 1) : Notify(i)
    \/ \E t \in timers : Fire(t)
    \/ Tick

SpecSwitch == Init /\ [][SwitchNext]_vars

\* icons looked up under the rules of a user
RulesNext ==
    \/ \E r \in UserRuleChoices : AddUserRule(r)
    \/ \E node \in ToolNodes : GetToolUi(node)

SpecRules == Init /\ [][RulesNext]_vars

\* the viewer on a live session
CursorNext ==
    \/ \E nodes \in InitialGraphs : Mount(nodes)
    \/ \E n \in ViewNodes : WatchUpdate(n)
    \/ \E key \in Keys :
          \E abortSession \in (IF key = "x" THEN BOOLEAN ELSE {FALSE}) :
             Press(key, abortSession)
    \/ SubmitCommand

SpecCursor == Init /\ [][CursorNext]_vars

-----------------------------------------------------------------------------
(* What the log holds, read off the events themselves                      *)

\* <<i, k>>: block k of the message of events[i]
BlockRefs ==
    {r \in (1..Len(events)) \X (1..2) :
        /\ events[r[1]].message # None
        /\ r[2] <= Len(events[r[1]].message[1].content.blocks)}

BlockAt(r) == events[r[1]].message[1].content.blocks[r[2]]

ToolUseRefs == {r \in BlockRefs : BlockAt(r).type = "tool_use"}
ToolResultRefs == {r \in BlockRefs : BlockAt(r).type = "tool_result"}

\* the tool_result blocks that name tool id t
ResultsNaming(t) == {r \in ToolResultRefs : BlockAt(r).tool_use_id = t}

\* the id the normalizer gives the node of tool_result block r
ResultNodeId(r) == events[r[1]].uuid \o ":" \o ToString(r[2] - 1)

\* the positions of graph.nodes that hold a node with this id
PositionsOf(id) == {p \in 1..Len(graph.nodes) : graph.nodes[p].id = id}

-----------------------------------------------------------------------------
(* C1: every tool_use becomes exactly one tool_call with its id and name;  *)
(* when the log holds a tool_result naming it, the tool_call's output and  *)
(* isError are that result's content and error flag (those of one of them  *)
(* when several name it); with no such result, output is null and isError  *)
(* is false.                                                               *)
C1_ToolUseBecomesToolCall ==
    \A u \in ToolUseRefs :
        LET b == BlockAt(u)
            found == {<<Some(BlockAt(r).content), BlockAt(r).is_error>> : r \in ResultsNaming(b.id)}
        IN  /\ Cardinality(PositionsOf(b.id)) = 1
            /\ \A p \in PositionsOf(b.id) :
                 LET n == graph.nodes[p] IN
                 /\ n.kind = "tool_call"
                 /\ n.name = b.name
                 /\ found # {} => <<n.output, n.isError>> \in found
                 /\ found = {} => n.output = None /\ n.isError = FALSE

\* a merged failing call beside a pending one
C1_Witness ==
    /\ \E p \in 1..Len(graph.nodes) :
          /\ graph.nodes[p].kind = "tool_call"
          /\ graph.nodes[p].output = Some("err")
          /\ graph.nodes[p].isError
    /\ \E p \in 1..Len(graph.nodes) :
          /\ graph.nodes[p].kind = "tool_call"
          /\ graph.nodes[p].output = None

(* C2: a tool_result that names the id of no tool_use of the log is in the *)
(* merged sequence exactly once, with its id, parentId, output and isError *)
(* unchanged.                                                              *)
C2_OrphanResultKept ==
    \A r \in ToolResultRefs :
        (~ \E u \in ToolUseRefs : BlockAt(u).id = BlockAt(r).tool_use_id)
        => /\ Cardinality(PositionsOf(ResultNodeId(r))) = 1
           /\ \A p \in PositionsOf(ResultNodeId(r)) :
                LET n == graph.nodes[p] IN
                /\ n.kind = "tool_result"
                /\ n.parentId = BlockAt(r).tool_use_id
                /\ n.output = Some(BlockAt(r).content)
                /\ n.isError = BlockAt(r).is_error

\* an orphan result kept beside a call that consumed its own result
C2_Witness ==
    /\ \E p \in 1..Len(graph.nodes) :
          /\ graph.nodes[p].kind = "tool_result"
          /\ graph.nodes[p].parentId = "tool-2"
          /\ graph.nodes[p].isError
    /\ \E p \in 1..Len(graph.nodes) :
          /\ graph.nodes[p].kind = "tool_call"
          /\ graph.nodes[p].id = "tool-1"
          /\ graph.nodes[p].output # None
    /\ Len(graph.nodes) = 2

(* C3: no tool_result that names the id of a tool_use of the log is left   *)
(* in the output as a tool_result node, wherever the two stand in the      *)
(* sorted sequence and however many results name the same tool_use.        *)
C3_MatchedResultsDropped ==
    \A r \in ToolResultRefs :
        (\E u \in ToolUseRefs : BlockAt(u).id = BlockAt(r).tool_use_id)
        => ~ \E p \in PositionsOf(ResultNodeId(r)) : graph.nodes[p].kind = "tool_result"

-----------------------------------------------------------------------------
(* Agents and their spans, read off the events                             *)

AgentIds == {events[i].agentId : i \in {j \in 1..Len(events) : events[j].agentId # NoStr}}
SpanStart(a) == MinOf({events[i].timestamp : i \in {j \in 1..Len(events) : events[j].agentId = a}})
SpanEnd(a) == MaxOf({events[i].timestamp : i \in {j \in 1..Len(events) : events[j].agentId = a}})

\* the lanes the graph's nodes of agent a carry
LanesOf(a) == {graph.nodes[p].branchLevel : p \in {q \in 1..Len(graph.nodes) : graph.nodes[q].agentId = a}}
UsedLanes == UNION {LanesOf(a) : a \in AgentIds}

\* the closed spans [start, end] share a timestamp
SpansOverlap(a, b) == SpanStart(a) <= SpanEnd(b) /\ SpanStart(b) <= SpanEnd(a)
\* one span ends no later than the other starts
SpansInSequence(a, b) == SpanEnd(a) <= SpanStart(b) \/ SpanEnd(b) <= SpanStart(a)

\* the largest number of agents whose spans hold one same timestamp
MaxActive ==
    LET at(t) == Cardinality({a \in AgentIds : SpanStart(a) <= t /\ t <= SpanEnd(a)})
        counts == {at(t) : t \in 1..MaxSpanTs}
    IN  MaxOf(counts)

\* no agent's span starts at the timestamp at which another agent's span ends
NoSharedEndpoint == \A a, b \in AgentIds : a # b => SpanStart(a) # SpanEnd(b)

(* C4, as claimed: no two distinct agents on one lane have overlapping     *)
(* closed spans [start, end], also when the spans meet at an endpoint.     *)
C4_NoOverlapOnLane ==
    \A a, b \in AgentIds :
        (a # b /\ LanesOf(a) \cap LanesOf(b) # {}) => ~ SpansOverlap(a, b)

(* C4, amended: two distinct agents on one lane run in sequence: the span  *)
(* of one ends no later than the span of the other starts (they share at   *)
(* most that one timestamp).                                               *)
C4_LaneAgentsInSequence ==
    \A a, b \in AgentIds :
        (a # b /\ LanesOf(a) \cap LanesOf(b) # {}) => SpansInSequence(a, b)

\* three agents, two of them sharing a lane, one of these a single timestamp
C4_Witness ==
    /\ Cardinality(AgentIds) = 3
    /\ \E a, b \in AgentIds :
          /\ a # b
          /\ LanesOf(a) = LanesOf(b)
          /\ SpanStart(a) = SpanEnd(a)
          /\ SpanEnd(a) = SpanStart(b)
    /\ Cardinality(UsedLanes) = 2

(* C5, as claimed: the lanes are 1..K, K is at most the number of agents   *)
(* and equals the largest number of simultaneously active agents.          *)
C5_LanesAreChromatic ==
    /\ UsedLanes = 1..Cardinality(UsedLanes)
    /\ Cardinality(UsedLanes) <= Cardinality(AgentIds)
    /\ Cardinality(UsedLanes) = MaxActive

(* C5, amended: the lanes are 1..K and K is at most the number of agents;  *)
(* K equals the largest number of simultaneously active agents whenever no *)
(* agent's span starts at the timestamp at which another agent's ends.     *)
C5_LanesAreChromaticApart ==
    /\ UsedLanes = 1..Cardinality(UsedLanes)
    /\ Cardinality(UsedLanes) <= Cardinality(AgentIds)
    /\ NoSharedEndpoint => Cardinality(UsedLanes) = MaxActive

\* three agents packed into two lanes, spans sharing no endpoint
C5_Witness ==
    /\ Cardinality(AgentIds) = 3
    /\ NoSharedEndpoint
    /\ Cardinality(UsedLanes) = 2
    /\ MaxActive = 2

-----------------------------------------------------------------------------
(* C6: the nodes buildGraph returns are in non-decreasing timestamp order. *)
C6_NodesSortedByTimestamp ==
    \A p \in 1..(Len(graph.nodes) - 1) :
        graph.nodes[p].timestamp <= graph.nodes[p + 1].timestamp

\* a log given out of timestamp order whose graph holds a merged tool call
\* after a node of an earlier timestamp
C6_Witness ==
    /\ \E i, j \in 1..Len(events) : i < j /\ events[i].timestamp > events[j].timestamp
    /\ Len(graph.nodes) >= 2
    /\ \E p \in 2..Len(graph.nodes) :
          /\ graph.nodes[p].kind = "tool_call"
          /\ graph.nodes[p].output # None
          /\ graph.nodes[p - 1].timestamp < graph.nodes[p].timestamp

(* C8: building twice in one process from the same events gives the same   *)
(* graph (ids, order, parentIds, branchLevels, edges and stats), also for  *)
(* events without uuid.                                                    *)
C8_RebuildIsIdentical == prevGraph.built => graph = prevGraph

ViewNext ==
    \/ \E n \in ViewNodes : AddViewNode(n)
    \/ ZoomIn
    \/ ZoomOut
    \/ \E row \in StickyRows, col \in StickyColumns : FindSticky(row, col)
SpecView == Init /\ [][ViewNext]_vars

\* the place of a zoom level in the order sessions < ... < focus
LevelIndex(level) == CHOOSE i \in 1..Len(ZoomLevels) : ZoomLevels[i] = level

\* the row of a main-line node of this kind
MainRow(kind) == IF kind = "user" THEN 0 ELSE IF kind = "assistant" THEN 1 ELSE 2

(* C16: the zoom level is one of the four; zoomIn moves one step toward    *)
(* focus and leaves focus unchanged, zoomOut moves one step toward         *)
(* sessions and leaves sessions unchanged; nothing wraps around.           *)
C16_ZoomIsClampedLinear ==
    /\ \E i \in 1..Len(ZoomLevels) : ZoomLevels[i] = zoom
    /\ LevelIndex(zoomIn(zoom)) =
          (IF zoom = "focus" THEN LevelIndex(zoom) ELSE LevelIndex(zoom) + 1)
    /\ LevelIndex(zoomOut(zoom)) =
          (IF zoom = "sessions" THEN LevelIndex(zoom) ELSE LevelIndex(zoom) - 1)
    /\ \A i \in 1..Len(ZoomLevels) :
          /\ LevelIndex(zoomIn(ZoomLevels[i])) = (IF i = Len(ZoomLevels) THEN i ELSE i + 1)
          /\ LevelIndex(zoomOut(ZoomLevels[i])) = (IF i = 1 THEN i ELSE i - 1)

\* the viewer has zoomed in to focus on a graph of nodes
C16_Witness == zoom = "focus" /\ Len(viewNodes) = 2

(* C17, as claimed: a main-line node has the same row at every zoom level: *)
(* 0 for user, 1 for assistant, 2 for every other kind.                    *)
C17_MainRowsSameAtEveryLevel ==
    \A i \in 1..Len(viewNodes) :
        viewNodes[i].branchLevel = 0
        => getVisualBranch(viewNodes[i], zoom) = MainRow(viewNodes[i].kind)

(* C17, amended: a main-line node has the same row at conversations,       *)
(* details and focus: 0 for user, 1 for assistant, 2 for every other kind; *)
(* at sessions every node is on row 0.                                     *)
C17_MainRowsSameBelowSessions ==
    \A i \in 1..Len(viewNodes) :
        /\ (viewNodes[i].branchLevel = 0 /\ zoom # "sessions")
              => getVisualBranch(viewNodes[i], zoom) = MainRow(viewNodes[i].kind)
        /\ zoom = "sessions" => getVisualBranch(viewNodes[i], zoom) = 0

\* at conversations, a main-line reply and a main-line tool call on display
C17_Witness ==
    /\ zoom = "conversations"
    /\ \E i, j \in 1..Len(viewNodes) :
          /\ viewNodes[i].branchLevel = 0 /\ viewNodes[i].kind = "assistant"
          /\ viewNodes[j].branchLevel = 0 /\ viewNodes[j].kind = "tool_call"

\* the rows of lane b at a zoom level: of its replies and of its other nodes
LaneRows(b, level) ==
    {getVisualBranch([kind |-> k, branchLevel |-> b], level) :
        k \in {"assistant", "tool_call", "user"}}

(* C18: at details and focus a node of lane b >= 1 is on row 3 + (b-1)*2   *)
(* when it is an assistant node and on the row after it otherwise; the row *)
(* pairs of two lanes are disjoint and none is a main-line row 0, 1 or 2.  *)
C18_AgentRowsDisjoint ==
    /\ \A i \in 1..Len(viewNodes) :
          (viewNodes[i].branchLevel >= 1 /\ zoom \in {"details", "focus"})
          => getVisualBranch(viewNodes[i], zoom) =
                3 + (viewNodes[i].branchLevel - 1) * 2
                  + (IF viewNodes[i].kind = "assistant" THEN 0 ELSE 1)
    /\ \A level \in {"details", "focus"} :
          LET rows == [b \in 1..MaxLanes |-> LaneRows(b, level)]
          IN  \A b \in 1..MaxLanes :
                 /\ rows[b] = {3 + (b - 1) * 2, 3 + (b - 1) * 2 + 1}
                 /\ rows[b] \cap {0, 1, 2} = {}
                 /\ \A c \in (b + 1)..MaxLanes : rows[b] \cap rows[c] = {}

\* at focus, nodes of both rows of lane 1 and a reply of lane 2 on display
C18_Witness ==
    /\ zoom = "focus"
    /\ {getVisualBranch(viewNodes[i], zoom) : i \in 1..Len(viewNodes)} = {3, 4, 5}

\* the nodes conversations keeps
KeptInConversations(n) ==
    \/ n.branchLevel = 0 /\ n.kind \in {"user", "assistant"}
    \/ n.branchLevel > 0 /\ n.kind = "assistant"

(* C19: at conversations filterByZoom returns exactly the indices of the   *)
(* main-line user and assistant nodes and of the assistant nodes of        *)
(* agents, in order; none of them has the excluded row -1.                 *)
C19_ConversationsKeepsDialogue ==
    zoom = "conversations"
    => /\ {visible[k] : k \in 1..Len(visible)}
            = {i - 1 : i \in {j \in 1..Len(viewNodes) : KeptInConversations(viewNodes[j])}}
       /\ \A k \in 1..(Len(visible) - 1) : visible[k] < visible[k + 1]
       /\ \A k \in 1..Len(visible) :
             getVisualBranch(viewNodes[visible[k] + 1], zoom) # 0 - 1

\* at conversations, a main-line tool call and an agent's tool call are
\* hidden and the agent's reply between them is shown
C19_Witness ==
    /\ zoom = "conversations"
    /\ Len(viewNodes) = 3
    /\ viewNodes[1].kind = "tool_call" /\ viewNodes[1].branchLevel = 0
    /\ viewNodes[2].kind = "assistant" /\ viewNodes[2].branchLevel = 1
    /\ viewNodes[3].kind = "tool_call" /\ viewNodes[3].branchLevel = 1
    /\ visible = << 1 >>

\* the columns before beforeColumn whose node is on the row asked for
StickyMatches ==
    {p \in 0..(Len(visible) - 1) :
        /\ p < sticky.beforeColumn
        /\ getVisualBranch(viewNodes[visible[p + 1] + 1], zoom) = sticky.row}

-----------------------------------------------------------------------------
(* Sub-agents and the tool calls that spawned them                         *)

SpawnNext == \E e \in SpawnedEvents(events) : AppendEvent(e)
SpecSpawn == Init /\ [][SpawnNext]_vars

\* the spawn records of agent a, by position in the log
SpawnRecords(a) ==
    {i \in 1..Len(events) : /\ events[i].type = "progress"
                            /\ events[i].dataType = "agent_progress"
                            /\ events[i].dataAgentId = a
                            /\ events[i].parentToolUseID # NoStr}

\* the tool-use id that spawned agent a
SpawningToolId(a) == events[MaxOf(SpawnRecords(a))].parentToolUseID

\* the positions of graph.nodes that hold a node of agent a
AgentPositions(a) == {p \in 1..Len(graph.nodes) : graph.nodes[p].agentId = a}

\* the parentId the normalizer gives the node with this id
NormalizedParent(id) ==
    LET raw == Flatten([i \in 1..Len(events) |-> parseEventToNodes(events[i], NoStr)])
    IN  raw[CHOOSE k \in 1..Len(raw) : raw[k].id = id].parentId

(* C12: of the nodes of an agent with a recorded spawn, exactly one, the   *)
(* earliest in output order, has the spawning tool-use id as parentId;     *)
(* every later node of the agent keeps the parentId the normalizer gave.   *)
C12_FirstAgentNodeLinkedOnce ==
    \A a \in AgentIds :
        (SpawnRecords(a) # {} /\ AgentPositions(a) # {})
        => LET P == AgentPositions(a)
               first == MinOf(P)
           IN  /\ graph.nodes[first].parentId = SpawningToolId(a)
               /\ \A p \in P \ {first} :
                     /\ graph.nodes[p].parentId = NormalizedParent(graph.nodes[p].id)
                     /\ graph.nodes[p].parentId # SpawningToolId(a)

\* agent-1, spawned by tool-1, has two nodes: the first linked to tool-1,
\* the second still the child of p0
C12_Witness ==
    /\ SpawnRecords("agent-1") # {}
    /\ Cardinality(AgentPositions("agent-1")) = 2
    /\ graph.nodes[MinOf(AgentPositions("agent-1"))].parentId = "tool-1"
    /\ graph.nodes[MaxOf(AgentPositions("agent-1"))].parentId = "p0"

(* C13: no node of the graph has both an agentId and kind user.            *)
C13_NoAgentUserNodes ==
    \A p \in 1..Len(graph.nodes) :
        graph.nodes[p].agentId # NoStr => graph.nodes[p].kind # "user"

\* the log holds an agent's prompt and the graph a node of that agent
C13_Witness ==
    /\ \E i \in 1..Len(events) :
          /\ events[i].agentId = "agent-1"
          /\ events[i].message # None
          /\ events[i].message[1].role = "user"
          /\ extractTextContent(events[i].message[1].content) # <<>>
    /\ AgentPositions("agent-1") # {}
    /\ Len(graph.nodes) = 2

-----------------------------------------------------------------------------
(* Builds that give no node, in both builders                              *)

EmptyNext ==
    \/ \E e \in SilentEvents(events) : AppendEvent(e)
    \/ \E m \in OcMessages : AddMessage(m)
    \/ \E q \in SilentParts : AddPart(q)
SpecEmpty == Init /\ [][EmptyNext]_vars

IsZeroStats(st) ==
    /\ st.totalInputTokens = 0
    /\ st.totalOutputTokens = 0
    /\ st.totalCacheRead = 0
    /\ st.totalCacheCreation = 0
    /\ st.model = NoStr

(* C11: whenever a build gives no node, from no record or from records     *)
(* that all give no node, the graph has no nodes, no edges and stats with  *)
(* every token counter 0 and model null; in the single-log and in the      *)
(* part-store builder.                                                     *)
C11_EmptyGraphHasZeroStats ==
    /\ graph.nodes = <<>> => graph.edges = <<>> /\ IsZeroStats(graph.stats)
    /\ ocGraph.nodes = <<>> => ocGraph.edges = <<>> /\ IsZeroStats(ocGraph.stats)

-----------------------------------------------------------------------------
(* C7: the nodes buildOpenCodeGraph returns are in non-decreasing          *)
(* timestamp order, a node's timestamp being its part's start time when    *)
(* present and the owning message's creation time otherwise.               *)
C7_OcNodesSortedByTimestamp ==
    \A p \in 1..(Len(ocGraph.nodes) - 1) :
        ocGraph.nodes[p].timestamp <= ocGraph.nodes[p + 1].timestamp

-----------------------------------------------------------------------------
(* Parts and orphan messages of the part store                             *)

\* the message whose part file has this id; NoStr for the id of no part
MessageOfPart(id) ==
    LET I == {i \in 1..Len(parts) : parts[i].id = id}
    IN  IF I = {} THEN NoStr ELSE parts[MinOf(I)].messageID

\* the positions of ocGraph.nodes made from the parts of message mid
PartPositions(mid) ==
    {p \in 1..Len(ocGraph.nodes) : MessageOfPart(ocGraph.nodes[p].id) = mid}

(* C14: the nodes emitted for one assistant message are in ascending       *)
(* lexicographic order of their part ids, whatever order the part records  *)
(* were read in.                                                           *)
C14_PartsInLexicographicOrder ==
    \A k \in 1..Len(messages) :
        messages[k].role = "assistant"
        => \A p, q \in PartPositions(messages[k].id) :
              p < q => LexLess(CharsOf(ocGraph.nodes[p].id), CharsOf(ocGraph.nodes[q].id))

\* an assistant's text, reasoning, tool or patch part that makes a node
MakesNode(q) ==
    \/ q.type \in {"text", "reasoning"} /\ q.text # <<>>
    \/ q.type = "tool" /\ q.tool # NoStr /\ q.state # None
    \/ q.type = "patch" /\ q.files # <<>> /\ q.hash # NoStr

\* message k has no turn anchor: no parentID, or one that names no user message
HasNoAnchor(k) ==
    /\ messages[k].role = "assistant"
    /\ ~ \E j \in 1..Len(messages) :
            /\ messages[j].role = "user"
            /\ messages[k].parentID # NoStr
            /\ messages[j].id = messages[k].parentID

(* C15: an assistant message without turn anchor is not discarded: each of *)
(* its text, reasoning, tool and patch parts still has its node in the     *)
(* graph.                                                                  *)
C15_OrphanAssistantKept ==
    \A k \in 1..Len(messages) :
        HasNoAnchor(k)
        => \A i \in 1..Len(parts) :
              (parts[i].messageID = messages[k].id /\ MakesNode(parts[i]))
              => \E p \in 1..Len(ocGraph.nodes) : ocGraph.nodes[p].id = parts[i].id

-----------------------------------------------------------------------------
(* The totals of a list of items, summed field by field                    *)

RECURSIVE SumTo(_, _)
SumTo(v, k) == IF k = 0 THEN 0 ELSE v[k] + SumTo(v, k - 1)

\* the sum of one usage field over the items; absent usage or field counts 0
FieldTotal(field) ==
    SumTo([i \in 1..Len(items) |->
             IF items[i].usage = None THEN 0 ELSE orZero(items[i].usage[1][field])],
          Len(items))

CostTotal == SumTo([i \in 1..Len(items) |-> orZero(items[i].cost)], Len(items))

\* the items in the order permutation f puts them
Reordered(f) == [i \in 1..Len(items) |-> items[f[i]]]

TokenTotals(st) ==
    << st.totalInputTokens, st.totalOutputTokens, st.totalCacheRead,
       st.totalCacheCreation, st.totalReasoningTokens >>

C10_ZeroSumIsUndefined ==
    /\ stats.totalCost = None <=> CostTotal = 0
    /\ CostTotal # 0 => stats.totalCost = Some(CostTotal)
    /\ stats.totalReasoningTokens = None <=> FieldTotal("reasoning_tokens") = 0
    /\ FieldTotal("reasoning_tokens") # 0
          => stats.totalReasoningTokens = Some(FieldTotal("reasoning_tokens"))

\* costs that are not zero cancel to an undefined totalCost, beside a defined
\* totalReasoningTokens
C10_Witness ==
    /\ \E i \in 1..Len(items) : items[i].cost = Some(1)
    /\ stats.totalCost = None
    /\ stats.totalReasoningTokens = Some(1)

-----------------------------------------------------------------------------
(* Multi-source routing                                                    *)

\* the <<entry, session>> positions a session id of the multi-source encodes
Owners(sid) ==
    {o \in (1..Len(entries)) \X (1..MaxSessions) :
        /\ o[2] <= Len(entries[o[1]].sessions)
        /\ encodeSessionId(entries[o[1]].kind, entries[o[1]].sessions[o[2]].id) = sid}

\* the call the adapter at position o receives for operation op
AdapterCall(o, op) ==
    [kind |-> entries[o[1]].kind, op |-> op, id |-> entries[o[1]].sessions[o[2]].id]

\* every listed id is kind:nativeId of one session of one adapter and
\* decodes to that kind and native id
ListedIdsDecode ==
    \A k \in 1..Len(sessionList) :
       /\ Cardinality(Owners(sessionList[k].id)) = 1
       /\ \A o \in Owners(sessionList[k].id) :
             /\ sessionList[k].source = entries[o[1]].kind
             /\ decodeSessionId(sessionList[k].id) =
                   Some([kind |-> entries[o[1]].kind,
                         id |-> entries[o[1]].sessions[o[2]].id])

-----------------------------------------------------------------------------
(* Debounced rebuilds of the part-store watch                              *)

IsNotify(k) == watchLog[k].type = "notify"
IsRebuild(k) == watchLog[k].type = "rebuild"

\* C22: at most one rebuild timer is pending; a notification leaves exactly
\* the 150 ms timer it started; every rebuild (and its one onUpdate call)
\* directly follows a notification, at least 150 ms after it, so that
\* notifications less than 150 ms apart have no rebuild between them and
\* the burst they form gets one rebuild, after its last notification, on
\* the store as the burst left it.
C22_OneRebuildPerBurst ==
    /\ Cardinality(timers) <= 1
    /\ shown.updates = Cardinality({k \in 1..Len(watchLog) : IsRebuild(k)})
    /\ \A k \in 1..Len(watchLog) :
          IsRebuild(k) =>
             /\ k > 1
             /\ IsNotify(k - 1)
             /\ watchLog[k].at >= watchLog[k - 1].at + DebounceMs
    /\ \A k \in 1..Len(watchLog) :
          (IsNotify(k) /\ k < Len(watchLog) /\ IsNotify(k + 1))
             => watchLog[k + 1].at <= watchLog[k].at + DebounceMs
    /\ (watchLog # <<>> /\ IsNotify(Len(watchLog))) =>
          /\ \E t \in timers : timers = {t} /\ t.due = watchLog[Len(watchLog)].at + DebounceMs
          /\ clock <= watchLog[Len(watchLog)].at + DebounceMs
    /\ (watchLog # <<>> /\ IsRebuild(Len(watchLog))) =>
          /\ timers = {}
          /\ shown.graph = GraphOf("A", stores)

\* a burst of two notifications 50 ms apart has been answered by one
\* rebuild, 150 ms after the second
C22_Witness ==
    \E k \in 1..Len(watchLog) :
       /\ k + 2 <= Len(watchLog)
       /\ IsNotify(k) /\ IsNotify(k + 1) /\ IsRebuild(k + 2)
       /\ watchLog[k + 1].at = watchLog[k].at + 50
       /\ watchLog[k + 2].at = watchLog[k + 1].at + DebounceMs
       /\ shown.updates = 1

-----------------------------------------------------------------------------
(* The cursor in follow mode                                               *)

\* C23: when the watch callback has delivered a rebuild while follow mode
\* is on, currentLevel is the visual row of the last node of the new graph
\* and cursorInLevel is that node's position within the row, so the cursor
\* addresses the last node.
C23_FollowCursorOnLastNode ==
    (lastKey.called = "onUpdate" /\ follow) =>
       /\ currentLevel = getVisualBranch(viewNodes[Len(viewNodes)], zoom)
       /\ cursorInLevel =
             nodesInLevelOf(SubSeq(viewNodes, 1, Len(viewNodes) - 1), currentLevel, zoom)
       /\ currentNodeIdx = Some(Len(viewNodes) - 1)

\* a rebuild in follow mode has put the cursor on the second node of an
\* agent's row
C23_Witness ==
    /\ lastKey.called = "onUpdate"
    /\ follow
    /\ currentLevel >= 3
    /\ cursorInLevel >= 1

-----------------------------------------------------------------------------
(* Zoom keys                                                               *)

\* C25: in normal mode a press of z takes the zoom level to zoomIn(level)
\* and a press of x takes it to zoomOut(level).
C25_KeysChangeZoom ==
    [][(lastKey' # lastKey /\ lastKey'.key = "z" => zoom' = zoomIn(zoom))
       /\ (lastKey' # lastKey /\ lastKey'.key = "x" => zoom' = zoomOut(zoom))]_vars

-----------------------------------------------------------------------------
(* The cursor under navigation and rebuilds                                *)

\* C29: in a viewer opened on a graph with the cursor on a node, the
\* cursor addresses a node after every navigation key and rebuild:
\* 0 <= cursorInLevel < the number of nodes whose visual row is
\* currentLevel.
C29_CursorStaysOnNode ==
    (mounted.done /\ mounted.onNode) =>
       /\ 0 <= cursorInLevel
       /\ cursorInLevel < nodesInLevel

-----------------------------------------------------------------------------
(* First matching tool icon rule                                           *)

\* the conditions of a rule, each on its own; a pattern that does not
\* compile is a condition that does not hold
SourceHolds(rule, node) == rule.source = NoStr \/ rule.source = node.source
ToolHolds(rule, node) ==
    \/ rule.tool = <<>>
    \/ normalizeToolName(node.name) = normalizeToolName(rule.tool)
    \/ baseToolName(node.name) = normalizeToolName(rule.tool)
ToolPatternHolds(rule, node) ==
    \/ rule.toolPattern = None
    \/ (~ regExpThrows(rule.toolPattern[1]) /\ regExpTest(rule.toolPattern[1], node.name))
InputContainsHolds(rule, node) ==
    \/ rule.inputContains = <<>>
    \/ includes(toLowerCase(node.input), toLowerCase(rule.inputContains))
InputPatternHolds(rule, node) ==
    \/ rule.inputPattern = None
    \/ (/\ node.input # <<>>
        /\ ~ regExpThrows(rule.inputPattern[1])
        /\ regExpTest(rule.inputPattern[1], node.input))

AllConditionsHold(rule, node) ==
    /\ SourceHolds(rule, node)
    /\ ToolHolds(rule, node)
    /\ ToolPatternHolds(rule, node)
    /\ InputContainsHolds(rule, node)
    /\ InputPatternHolds(rule, node)

HasInvalidPattern(rule) ==
    \/ (rule.toolPattern # None /\ regExpThrows(rule.toolPattern[1]))
    \/ (rule.inputPattern # None /\ regExpThrows(rule.inputPattern[1]))

\* the rules in effect: the user's rules as loaded, then the defaults
RulesInEffect == cachedRules[1]
Matching == {k \in 1..Len(RulesInEffect) : AllConditionsHold(RulesInEffect[k], lookup.node)}

\* C24: the rules getToolUi goes through are the user's rules followed by
\* the built-in defaults; for a tool node it returns the icon and iconId
\* of the first rule of that list whose conditions all hold, a rule with
\* a pattern that does not compile is never that rule, and the result is
\* null when no rule's conditions hold.
C24_FirstMatchingRuleWins ==
    lookup.called =>
       /\ \E n \in 0..Len(userRules) :
             RulesInEffect = SubSeq(userRules, 1, n) \o DEFAULT_RULES
       /\ lookup.node.kind \in {"tool_call", "tool_use"} =>
             /\ Matching = {} => lookup.result = None
             /\ Matching # {} =>
                   /\ lookup.result =
                         Some([iconText |-> RulesInEffect[MinOf(Matching)].icon,
                               iconId |-> RulesInEffect[MinOf(Matching)].iconId])
                   /\ ~ HasInvalidPattern(RulesInEffect[MinOf(Matching)])

\* the user's first rule has a pattern that does not compile and would
\* match otherwise; the icon comes from a later rule
C24_Witness ==
    /\ lookup.called
    /\ Len(userRules) >= 1
    /\ RulesInEffect[1] = userRules[1]
    /\ HasInvalidPattern(userRules[1])
    /\ ToolHolds(userRules[1], lookup.node)
    /\ lookup.node.input # <<>>
    /\ Matching # {}
    /\ MinOf(Matching) > 1
    /\ lookup.result # None

-----------------------------------------------------------------------------
(* The part-store graph is one chain                                       *)

\* C26: in the part-store graph the first node has no parentId, every
\* later node's parentId is the id of the node just before it, also when
\* the two are of different turns, and the edges are the nodes-1 links of
\* that chain in order, none of them a branch.
C26_OcNodesFormOneChain ==
    LET nodes == ocGraph.nodes
    IN  /\ nodes # <<>> => nodes[1].parentId = NoStr
        /\ \A i \in 2..Len(nodes) : nodes[i].parentId = nodes[i - 1].id
        /\ ocGraph.edges =
              [i \in 1..(Len(nodes) - 1) |->
                 [from |-> nodes[i].id, to |-> nodes[i + 1].id, isBranch |-> FALSE]]

\* a graph of three nodes or more whose chain crosses from one turn into
\* the next
C26_Witness ==
    /\ Len(ocGraph.nodes) >= 3
    /\ \E i \in 2..Len(ocGraph.nodes) :
          /\ ocGraph.nodes[i].turnId # ocGraph.nodes[i - 1].turnId
          /\ ocGraph.nodes[i].parentId = ocGraph.nodes[i - 1].id

-----------------------------------------------------------------------------
(* Edges of the single-log graph                                           *)

\* the positions of the output nodes that have a parentId, in node order
ParentedPositions == {i \in 1..Len(graph.nodes) : graph.nodes[i].parentId # NoStr}
NthParented(k) ==
    CHOOSE i \in ParentedPositions :
       Cardinality({j \in ParentedPositions : j < i}) = k - 1

\* C27: the edges of the single-log graph are, in node order, one edge
\* from n.parentId to n.id for each output node n that has a parentId,
\* and nothing else; an edge is a branch exactly when its target node's
\* branchLevel is above 0.
C27_EdgesMirrorParentIds ==
    /\ Len(graph.edges) = Cardinality(ParentedPositions)
    /\ \A k \in 1..Len(graph.edges) :
          LET n == graph.nodes[NthParented(k)]
          IN  /\ graph.edges[k].from = n.parentId
              /\ graph.edges[k].to = n.id
              /\ graph.edges[k].isBranch <=> n.branchLevel > 0

\* a built graph with an edge inside the main line and a branch edge into
\* a sub-agent's lane
C27_Witness ==
    /\ graph.built
    /\ \E k \in 1..Len(graph.edges) : graph.edges[k].isBranch
    /\ \E k \in 1..Len(graph.edges) : ~ graph.edges[k].isBranch

(* C28: for every node list and zoom level filterByZoom returns a strictly *)
(* increasing sequence of valid indices into the node list: none out of    *)
(* range and no node listed twice, also at sessions for a single node.     *)
C28_VisibleStrictlyIncreasing ==
    /\ \A k \in 1..Len(visible) : visible[k] \in 0..(Len(viewNodes) - 1)
    /\ \A k \in 1..(Len(visible) - 1) : visible[k] < visible[k + 1]


-----------------------------------------------------------------------------
(* Switching sessions while watching                                       *)

(* C30: once a switch to session S has completed (its graph is committed   *)
(* and the watch effect has run), the graph on display is one built from   *)
(* S: no update of the previous session's subscription replaces it.        *)
C30_DisplayedGraphIsOfSession ==
    (SwitchCount > 0 /\ ~ shown.effectDue) => shown.graph.session = shown.sessionId
====
